---- MODULE Spec2Model ----
(***************************************************************************)
(* failure-uploader: the two-phase upload protocol of the service          *)
(* (internal/keys, internal/handlers, internal/validation,                 *)
(* internal/s3client, internal/email, cmd/server, cmd/lambda).             *)
(*                                                                         *)
(* A Go string is modelled as the sequence of its characters, so that      *)
(* fmt.Sprintf, path.Join / path.Clean, regexp matches and prefix tests    *)
(* are computed as the code computes them.                                 *)
(***************************************************************************)
EXTENDS Integers, Sequences, FiniteSets, Bags, TLC

(***************************************************************************)
(* String literals of the source                                           *)
(***************************************************************************)
\* "failures/"
str_failures ==
  <<"f","a","i","l","u","r","e","s","/">>

\* "envelope.json"
str_envelope_json ==
  <<"e","n","v","e","l","o","p","e",".","j","s","o","n">>

\* "request.raw"
str_request_raw ==
  <<"r","e","q","u","e","s","t",".","r","a","w">>

\* "request.headers.json"
str_request_headers_json ==
  <<"r","e","q","u","e","s","t",".","h","e","a","d","e","r","s",".","j","s","o","n">>

\* "response.raw"
str_response_raw ==
  <<"r","e","s","p","o","n","s","e",".","r","a","w">>

\* "checksums.json"
str_checksums_json ==
  <<"c","h","e","c","k","s","u","m","s",".","j","s","o","n">>

\* "files"
str_files ==
  <<"f","i","l","e","s">>

\* "application/json"
str_application_json ==
  <<"a","p","p","l","i","c","a","t","i","o","n","/","j","s","o","n">>

\* "application/octet-stream"
str_application_octet_stream ==
  <<"a","p","p","l","i","c","a","t","i","o","n","/","o","c","t","e","t","-","s","t","r","e","a","m">>

\* "invalid_json"
code_invalid_json ==
  <<"i","n","v","a","l","i","d","_","j","s","o","n">>

\* "presign_failed"
code_presign_failed ==
  <<"p","r","e","s","i","g","n","_","f","a","i","l","e","d">>

\* "verification_failed"
code_verification_failed ==
  <<"v","e","r","i","f","i","c","a","t","i","o","n","_","f","a","i","l","e","d">>

\* "missing_objects"
code_missing_objects ==
  <<"m","i","s","s","i","n","g","_","o","b","j","e","c","t","s">>

\* "validation_error"
code_validation_error ==
  <<"v","a","l","i","d","a","t","i","o","n","_","e","r","r","o","r">>

\* "Failed to parse request body"
msg_parse_failed ==
  <<"F","a","i","l","e","d"," ","t","o"," ","p","a","r","s","e"," ","r","e","q","u","e","s","t"," ","b","o","d","y">>

\* "Failed to generate presigned URLs"
msg_presign_failed ==
  <<"F","a","i","l","e","d"," ","t","o"," ","g","e","n","e","r","a","t","e"," ","p","r","e","s","i","g","n","e","d"," ","U","R","L","s">>

\* "Failed to verify uploaded objects"
msg_verification_failed ==
  <<"F","a","i","l","e","d"," ","t","o"," ","v","e","r","i","f","y"," ","u","p","l","o","a","d","e","d"," ","o","b","j","e","c","t","s">>

\* "Some objects were not found in S3"
msg_missing_objects ==
  <<"S","o","m","e"," ","o","b","j","e","c","t","s"," ","w","e","r","e"," ","n","o","t"," ","f","o","u","n","d"," ","i","n"," ","S","3">>

\* "Validation failed"
msg_validation_failed ==
  <<"V","a","l","i","d","a","t","i","o","n"," ","f","a","i","l","e","d">>

\* "ok"
str_ok ==
  <<"o","k">>

\* "project"
fld_project ==
  <<"p","r","o","j","e","c","t">>

\* "env"
fld_env ==
  <<"e","n","v">>

\* "request.method"
fld_request_method ==
  <<"r","e","q","u","e","s","t",".","m","e","t","h","o","d">>

\* "request.url"
fld_request_url ==
  <<"r","e","q","u","e","s","t",".","u","r","l">>

\* "request.bodyBytes"
fld_request_bodyBytes ==
  <<"r","e","q","u","e","s","t",".","b","o","d","y","B","y","t","e","s">>

\* "request.files["
fld_request_files_open ==
  <<"r","e","q","u","e","s","t",".","f","i","l","e","s","[">>

\* "].filename"
fld_files_filename_close ==
  <<"]",".","f","i","l","e","n","a","m","e">>

\* "].bytes"
fld_files_bytes_close ==
  <<"]",".","b","y","t","e","s">>

\* "totalBytes"
fld_totalBytes ==
  <<"t","o","t","a","l","B","y","t","e","s">>

\* "client.platform"
fld_client_platform ==
  <<"c","l","i","e","n","t",".","p","l","a","t","f","o","r","m">>

\* "failureId"
fld_failureId ==
  <<"f","a","i","l","u","r","e","I","d">>

\* "uploadedKeys"
fld_uploadedKeys ==
  <<"u","p","l","o","a","d","e","d","K","e","y","s">>

\* "required"
vmsg_required ==
  <<"r","e","q","u","i","r","e","d">>

\* "invalid format (alphanumeric, underscore, hyphen, max 64 chars)"
vmsg_invalid_project ==
  <<"i","n","v","a","l","i","d"," ","f","o","r","m","a","t"," ","(","a","l","p","h","a","n","u","m","e","r","i","c",","," ","u","n","d","e","r","s","c","o","r","e",","," ","h","y","p","h","e","n",","," ","m","a","x"," ","6","4"," ","c","h","a","r","s",")">>

\* "invalid format (alphanumeric, underscore, hyphen, max 32 chars)"
vmsg_invalid_env ==
  <<"i","n","v","a","l","i","d"," ","f","o","r","m","a","t"," ","(","a","l","p","h","a","n","u","m","e","r","i","c",","," ","u","n","d","e","r","s","c","o","r","e",","," ","h","y","p","h","e","n",","," ","m","a","x"," ","3","2"," ","c","h","a","r","s",")">>

\* "invalid HTTP method"
vmsg_invalid_method ==
  <<"i","n","v","a","l","i","d"," ","H","T","T","P"," ","m","e","t","h","o","d">>

\* "must be a valid HTTP(S) URL"
vmsg_invalid_url ==
  <<"m","u","s","t"," ","b","e"," ","a"," ","v","a","l","i","d"," ","H","T","T","P","(","S",")"," ","U","R","L">>

\* "cannot be negative"
vmsg_negative ==
  <<"c","a","n","n","o","t"," ","b","e"," ","n","e","g","a","t","i","v","e">>

\* "exceeds maximum allowed size ("
vmsg_exceeds_open ==
  <<"e","x","c","e","e","d","s"," ","m","a","x","i","m","u","m"," ","a","l","l","o","w","e","d"," ","s","i","z","e"," ","(">>

\* "total upload size exceeds maximum ("
vmsg_total_open ==
  <<"t","o","t","a","l"," ","u","p","l","o","a","d"," ","s","i","z","e"," ","e","x","c","e","e","d","s"," ","m","a","x","i","m","u","m"," ","(">>

\* " bytes)"
vmsg_bytes_close ==
  <<" ","b","y","t","e","s",")">>

\* "must be one of: ios, android, web, desktop"
vmsg_invalid_platform ==
  <<"m","u","s","t"," ","b","e"," ","o","n","e"," ","o","f",":"," ","i","o","s",","," ","a","n","d","r","o","i","d",","," ","w","e","b",","," ","d","e","s","k","t","o","p">>

\* "invalid format"
vmsg_invalid_format ==
  <<"i","n","v","a","l","i","d"," ","f","o","r","m","a","t">>

\* "http://"
str_http ==
  <<"h","t","t","p",":","/","/">>

\* "https://"
str_https ==
  <<"h","t","t","p","s",":","/","/">>

\* ": "
str_colon_space ==
  <<":"," ">>

(***************************************************************************)
(* Generic string helpers (Go: strings, fmt, path)                         *)
(***************************************************************************)
EmptyStr == <<>>

\* strings.HasPrefix(s, p)
HasPrefix(s, p) ==
  /\ Len(p) <= Len(s)
  /\ SubSeq(s, 1, Len(p)) = p

\* strings.Contains(s, sub)
Contains(s, sub) ==
  \E i \in 0..(Len(s) - Len(sub)) : SubSeq(s, i + 1, i + Len(sub)) = sub

DigitChars == <<"0","1","2","3","4","5","6","7","8","9">>

\* fmt verb %d for a non-negative integer
RECURSIVE DecStr(_)
DecStr(n) ==
  IF n < 10 THEN <<DigitChars[n + 1]>>
  ELSE DecStr(n \div 10) \o <<DigitChars[(n % 10) + 1]>>

\* zero-padded field of a time layout ("01", "02", "2006")
RECURSIVE ZeroPad(_, _)
ZeroPad(s, width) ==
  IF Len(s) >= width THEN s ELSE ZeroPad(<<"0">> \o s, width)

\* the elements of a path between its "/" separators
RECURSIVE SplitSlash(_)
SplitSlash(s) ==
  IF \A i \in 1..Len(s) : s[i] # "/" THEN <<s>>
  ELSE LET i == CHOOSE k \in 1..Len(s) :
                  /\ s[k] = "/"
                  /\ \A j \in 1..(k - 1) : s[j] # "/"
       IN <<SubSeq(s, 1, i - 1)>> \o SplitSlash(SubSeq(s, i + 1, Len(s)))

\* strings.Join(elems, sep)
RECURSIVE JoinWith(_, _)
JoinWith(elems, sep) ==
  IF elems = <<>> THEN EmptyStr
  ELSE IF Len(elems) = 1 THEN elems[1]
  ELSE elems[1] \o sep \o JoinWith(Tail(elems), sep)

DotDot == <<".", ".">>

\* the element stack path.Clean keeps while it scans the path
RECURSIVE CleanElems(_, _, _)
CleanElems(elems, out, rooted) ==
  IF elems = <<>> THEN out
  ELSE LET e == Head(elems)
           rest == Tail(elems)
       IN IF e = EmptyStr \/ e = <<".">> THEN CleanElems(rest, out, rooted)
          ELSE IF e = DotDot
               THEN IF out # <<>> /\ out[Len(out)] # DotDot
                    THEN CleanElems(rest, SubSeq(out, 1, Len(out) - 1), rooted)
                    ELSE IF rooted THEN CleanElems(rest, out, rooted)
                    ELSE CleanElems(rest, Append(out, e), rooted)
          ELSE CleanElems(rest, Append(out, e), rooted)

\* the result of path.Clean from the cleaned elements of the path
CleanResult(rooted, body) ==
  IF rooted THEN <<"/">> \o body
  ELSE IF body = EmptyStr THEN <<".">> ELSE body

\* path.Clean(p)
Clean(p) ==
  IF p = EmptyStr THEN <<".">>
  ELSE CleanResult(p[1] = "/",
                   JoinWith(CleanElems(SplitSlash(p), <<>>, p[1] = "/"), <<"/">>))

\* the non-empty elements of a list of strings, in order
RECURSIVE NonEmptyElems(_)
NonEmptyElems(elems) ==
  IF elems = <<>> THEN <<>>
  ELSE IF Head(elems) = EmptyStr THEN NonEmptyElems(Tail(elems))
  ELSE <<Head(elems)>> \o NonEmptyElems(Tail(elems))

\* path.Join of elements of which ne are the non-empty ones
JoinClean(ne) == IF ne = <<>> THEN EmptyStr ELSE Clean(JoinWith(ne, <<"/">>))

\* path.Join(elems...)
PathJoin(elems) == JoinClean(NonEmptyElems(elems))

(***************************************************************************)
(* internal/keys: Builder                                                  *)
(***************************************************************************)
\* the date formatted without leading zeros
FormatDate_unpadded(date) ==
  DecStr(date.y) \o <<"/">> \o DecStr(date.m) \o <<"/">> \o DecStr(date.d)

\* time.Time.Format("2006/01/02")
FormatDate(date) ==
  ZeroPad(DecStr(date.y), 4) \o <<"/">> \o ZeroPad(DecStr(date.m), 2)
    \o <<"/">> \o ZeroPad(DecStr(date.d), 2)

\* NewBuilder(project, env, failureID), the date being read from the clock
NewBuilder(project, env, failureID, clock) ==
  [project |-> project, env |-> env, failureID |-> failureID, date |-> clock]

\* (*Builder).WithDate
WithDate(b, t) == [b EXCEPT !.date = t]

\* Prefix without the "/" that closes it
Prefix_open(b) ==
  str_failures \o b.project \o <<"/">> \o b.env \o <<"/">>
    \o FormatDate(b.date) \o <<"/">> \o b.failureID

\* (*Builder).Prefix
Prefix(b) ==
  str_failures \o b.project \o <<"/">> \o b.env \o <<"/">>
    \o FormatDate(b.date) \o <<"/">> \o b.failureID \o <<"/">>

Envelope(b) == PathJoin(<<Prefix(b), str_envelope_json>>)

RequestRaw(b) == PathJoin(<<Prefix(b), str_request_raw>>)

RequestHeaders(b) == PathJoin(<<Prefix(b), str_request_headers_json>>)

ResponseRaw(b) == PathJoin(<<Prefix(b), str_response_raw>>)

Checksums(b) == PathJoin(<<Prefix(b), str_checksums_json>>)

File(b, filename) == PathJoin(<<Prefix(b), str_files, filename>>)

RequiredKeys(b) ==
  <<Envelope(b), RequestRaw(b), RequestHeaders(b), Checksums(b)>>

RECURSIVE FileKeys(_, _)
FileKeys(b, filenames) ==
  IF filenames = <<>> THEN <<>>
  ELSE <<File(b, Head(filenames))>> \o FileKeys(b, Tail(filenames))

AllKeys(b, filenames) ==
  RequiredKeys(b) \o <<ResponseRaw(b)>> \o FileKeys(b, filenames)

(***************************************************************************)
(* internal/config: Config (the defaults of Load)                          *)
(***************************************************************************)
DefaultMaxBodyBytes == 10485760

DefaultMaxFileBytes == 52428800

DefaultMaxTotalBytes == 104857600

DefaultPresignTTLSeconds == 900

\* config.Load with no MAX_*_BYTES or PRESIGN_TTL_SECONDS in the environment
Load ==
  [MaxBodyBytes |-> DefaultMaxBodyBytes,
   MaxFileBytes |-> DefaultMaxFileBytes,
   MaxTotalBytes |-> DefaultMaxTotalBytes,
   PresignTTLSeconds |-> DefaultPresignTTLSeconds]

(***************************************************************************)
(* internal/validation                                                     *)
(***************************************************************************)
LowerLetters ==
  <<"a","b","c","d","e","f","g","h","i","j","k","l","m",
    "n","o","p","q","r","s","t","u","v","w","x","y","z">>

UpperLetters ==
  <<"A","B","C","D","E","F","G","H","I","J","K","L","M",
    "N","O","P","Q","R","S","T","U","V","W","X","Y","Z">>

Range(f) == {f[i] : i \in DOMAIN f}

\* the character class [a-zA-Z0-9_-]
NameChars ==
  Range(LowerLetters) \cup Range(UpperLetters) \cup Range(DigitChars) \cup {"_", "-"}

\* strings.ToUpper
ToUpper(s) ==
  [i \in 1..Len(s) |->
     IF \E k \in 1..26 : LowerLetters[k] = s[i]
     THEN UpperLetters[CHOOSE k \in 1..26 : LowerLetters[k] = s[i]]
     ELSE s[i]]

\* strings.ToLower
ToLower(s) ==
  [i \in 1..Len(s) |->
     IF \E k \in 1..26 : UpperLetters[k] = s[i]
     THEN LowerLetters[CHOOSE k \in 1..26 : UpperLetters[k] = s[i]]
     ELSE s[i]]

\* ^[a-zA-Z0-9_-]{1,64}$
projectRegex(s) ==
  /\ Len(s) >= 1
  /\ Len(s) <= 64
  /\ \A i \in 1..Len(s) : s[i] \in NameChars

\* ^[a-zA-Z0-9_-]{1,32}$
envRegex(s) ==
  /\ Len(s) >= 1
  /\ Len(s) <= 32
  /\ \A i \in 1..Len(s) : s[i] \in NameChars

\* ^(ios|android|web|desktop)$
platformRegex(s) ==
  s \in {<<"i","o","s">>, <<"a","n","d","r","o","i","d">>,
         <<"w","e","b">>, <<"d","e","s","k","t","o","p">>}

\* ^(GET|POST|PUT|PATCH|DELETE|HEAD|OPTIONS)$
methodRegex(s) ==
  s \in {<<"G","E","T">>, <<"P","O","S","T">>, <<"P","U","T">>,
         <<"P","A","T","C","H">>, <<"D","E","L","E","T","E">>,
         <<"H","E","A","D">>, <<"O","P","T","I","O","N","S">>}

ValidationError(field, message) == [Field |-> field, Message |-> message]

\* ValidationError.Error
ErrorText(e) == e.Field \o str_colon_space \o e.Message

\* FileErrors that rejects a file whose size is the ceiling
RECURSIVE FileErrors_strict(_, _, _)
FileErrors_strict(files, i, cfg) ==
  IF i > Len(files) THEN <<>>
  ELSE LET file == files[i]
           idx == DecStr(i - 1)
           nameErr ==
             IF file.Filename = EmptyStr
             THEN <<ValidationError(
                      fld_request_files_open \o idx \o fld_files_filename_close,
                      vmsg_required)>>
             ELSE <<>>
           sizeErr ==
             IF file.Bytes < 0
             THEN <<ValidationError(
                      fld_request_files_open \o idx \o fld_files_bytes_close,
                      vmsg_negative)>>
             ELSE IF file.Bytes >= cfg.MaxFileBytes
             THEN <<ValidationError(
                      fld_request_files_open \o idx \o fld_files_bytes_close,
                      vmsg_exceeds_open \o DecStr(cfg.MaxFileBytes) \o vmsg_bytes_close)>>
             ELSE <<>>
       IN nameErr \o sizeErr \o FileErrors_strict(files, i + 1, cfg)

\* the errors the loop over req.Request.Files appends, file by file
RECURSIVE FileErrors(_, _, _)
FileErrors(files, i, cfg) ==
  IF i > Len(files) THEN <<>>
  ELSE LET file == files[i]
           idx == DecStr(i - 1)
           nameErr ==
             IF file.Filename = EmptyStr
             THEN <<ValidationError(
                      fld_request_files_open \o idx \o fld_files_filename_close,
                      vmsg_required)>>
             ELSE <<>>
           sizeErr ==
             IF file.Bytes < 0
             THEN <<ValidationError(
                      fld_request_files_open \o idx \o fld_files_bytes_close,
                      vmsg_negative)>>
             ELSE IF file.Bytes > cfg.MaxFileBytes
             THEN <<ValidationError(
                      fld_request_files_open \o idx \o fld_files_bytes_close,
                      vmsg_exceeds_open \o DecStr(cfg.MaxFileBytes) \o vmsg_bytes_close)>>
             ELSE <<>>
       IN nameErr \o sizeErr \o FileErrors(files, i + 1, cfg)

RECURSIVE TotalFileBytes(_)
TotalFileBytes(files) ==
  IF files = <<>> THEN 0 ELSE Head(files).Bytes + TotalFileBytes(Tail(files))

ValidateUploadTicketRequest(req, cfg) ==
  LET projectErr ==
        IF req.Project = EmptyStr
        THEN <<ValidationError(fld_project, vmsg_required)>>
        ELSE IF ~projectRegex(req.Project)
        THEN <<ValidationError(fld_project, vmsg_invalid_project)>>
        ELSE <<>>
      envErr ==
        IF req.Env = EmptyStr
        THEN <<ValidationError(fld_env, vmsg_required)>>
        ELSE IF ~envRegex(req.Env)
        THEN <<ValidationError(fld_env, vmsg_invalid_env)>>
        ELSE <<>>
      methodErr ==
        IF req.Request.Method = EmptyStr
        THEN <<ValidationError(fld_request_method, vmsg_required)>>
        ELSE IF ~methodRegex(ToUpper(req.Request.Method))
        THEN <<ValidationError(fld_request_method, vmsg_invalid_method)>>
        ELSE <<>>
      urlErr ==
        IF req.Request.URL = EmptyStr
        THEN <<ValidationError(fld_request_url, vmsg_required)>>
        ELSE IF ~HasPrefix(req.Request.URL, str_http)
                /\ ~HasPrefix(req.Request.URL, str_https)
        THEN <<ValidationError(fld_request_url, vmsg_invalid_url)>>
        ELSE <<>>
      bodyErr ==
        IF req.Request.BodyBytes < 0
        THEN <<ValidationError(fld_request_bodyBytes, vmsg_negative)>>
        ELSE IF req.Request.BodyBytes > cfg.MaxBodyBytes
        THEN <<ValidationError(fld_request_bodyBytes,
                 vmsg_exceeds_open \o DecStr(cfg.MaxBodyBytes) \o vmsg_bytes_close)>>
        ELSE <<>>
      totalBytes == req.Request.BodyBytes + TotalFileBytes(req.Request.Files)
      totalErr ==
        IF totalBytes > cfg.MaxTotalBytes
        THEN <<ValidationError(fld_totalBytes,
                 vmsg_total_open \o DecStr(cfg.MaxTotalBytes) \o vmsg_bytes_close)>>
        ELSE <<>>
      platformErr ==
        IF req.Client.Platform # EmptyStr
           /\ ~platformRegex(ToLower(req.Client.Platform))
        THEN <<ValidationError(fld_client_platform, vmsg_invalid_platform)>>
        ELSE <<>>
  IN projectErr \o envErr \o methodErr \o urlErr \o bodyErr
       \o FileErrors(req.Request.Files, 1, cfg) \o totalErr \o platformErr

\* ValidateUploadCompleteRequest that wants a checksum for every claimed key
\* once a checksum map is sent
ValidateUploadCompleteRequest_checksums(req) ==
  LET idErr ==
        IF req.FailureID = EmptyStr
        THEN <<ValidationError(fld_failureId, vmsg_required)>>
        ELSE <<>>
      keysErr ==
        IF Len(req.UploadedKeys) = 0
        THEN <<ValidationError(fld_uploadedKeys, vmsg_required)>>
        ELSE <<>>
      sumErr ==
        IF ~req.SHA256.isNil
           /\ \E i \in DOMAIN req.UploadedKeys :
                \A e \in req.SHA256.entries : e[1] # req.UploadedKeys[i]
        THEN <<ValidationError(fld_uploadedKeys, vmsg_invalid_format)>>
        ELSE <<>>
  IN idErr \o keysErr \o sumErr

\* ValidateUploadCompleteRequest
ValidateUploadCompleteRequest(req) ==
  LET idErr ==
        IF req.FailureID = EmptyStr
        THEN <<ValidationError(fld_failureId, vmsg_required)>>
        ELSE <<>>
      projectErr ==
        IF req.Project = EmptyStr
        THEN <<ValidationError(fld_project, vmsg_required)>>
        ELSE IF ~projectRegex(req.Project)
        THEN <<ValidationError(fld_project, vmsg_invalid_format)>>
        ELSE <<>>
      envErr ==
        IF req.Env = EmptyStr
        THEN <<ValidationError(fld_env, vmsg_required)>>
        ELSE IF ~envRegex(req.Env)
        THEN <<ValidationError(fld_env, vmsg_invalid_format)>>
        ELSE <<>>
      keysErr ==
        IF Len(req.UploadedKeys) = 0
        THEN <<ValidationError(fld_uploadedKeys, vmsg_required)>>
        ELSE <<>>
  IN idErr \o projectErr \o envErr \o keysErr

(***************************************************************************)
(* External calls, as the handlers observe them.  Every call a request     *)
(* makes is logged with its outcome.                                       *)
(***************************************************************************)
\* email.FailureNotification, zero value
NoNotification ==
  [FailureID |-> EmptyStr, Project |-> EmptyStr, Env |-> EmptyStr,
   Method |-> EmptyStr, URL |-> EmptyStr, AppVersion |-> EmptyStr,
   Platform |-> EmptyStr, EnvelopeURL |-> EmptyStr]

Call(op, key, contentType, notif, result) ==
  [op |-> op, key |-> key, contentType |-> contentType,
   notif |-> notif, result |-> result]

\* the URL of a presigned PUT request for a key
PutURLOf(key) == <<"P","U","T",":">> \o key

\* the URL of a presigned GET request for a key
GetURLOf(key) == <<"G","E","T",":">> \o key

(***************************************************************************)
(* internal/s3client: Presigner                                            *)
(***************************************************************************)
\* (*Presigner).PresignPut; fail: the SDK's PresignPutObject returns an error
PresignPut(key, contentType, fail) ==
  IF fail
  THEN [url |-> EmptyStr, err |-> TRUE,
        call |-> Call("PresignPut", key, contentType, NoNotification, "error")]
  ELSE [url |-> PutURLOf(key), err |-> FALSE,
        call |-> Call("PresignPut", key, contentType, NoNotification, "ok")]

\* (*Presigner).PresignGet; fail: the SDK's PresignGetObject returns an error
PresignGet(key, fail) ==
  IF fail
  THEN [url |-> EmptyStr, err |-> TRUE,
        call |-> Call("PresignGet", key, EmptyStr, NoNotification, "error")]
  ELSE [url |-> GetURLOf(key), err |-> FALSE,
        call |-> Call("PresignGet", key, EmptyStr, NoNotification, "ok")]

\* s3.Client.HeadObject on the bucket: the object is there ("ok"), it is not
\* ("NotFound"), or the call fails for another reason ("error": transport,
\* authorization)
HeadObject(key, bucket, fault) ==
  IF fault THEN "error"
  ELSE IF key \in bucket THEN "ok" ELSE "NotFound"

\* ObjectExists with the test of the HeadObject error inverted
ObjectExists_inverted(key, bucket, fault) ==
  LET head == HeadObject(key, bucket, fault)
  IN IF head = "ok"
     THEN [exists |-> FALSE, err |-> FALSE,
           call |-> Call("HeadObject", key, EmptyStr, NoNotification, head)]
     ELSE [exists |-> TRUE, err |-> FALSE,
           call |-> Call("HeadObject", key, EmptyStr, NoNotification, head)]

\* (*Presigner).ObjectExists
ObjectExists(key, bucket, fault) ==
  LET head == HeadObject(key, bucket, fault)
  IN IF head # "ok"
     THEN [exists |-> FALSE, err |-> FALSE,
           call |-> Call("HeadObject", key, EmptyStr, NoNotification, head)]
     ELSE [exists |-> TRUE, err |-> FALSE,
           call |-> Call("HeadObject", key, EmptyStr, NoNotification, head)]

\* a verifier that gives up at the first key reported absent
RECURSIVE VerifyLoop_stopAtMiss(_, _, _, _, _, _)
VerifyLoop_stopAtMiss(keys, i, bucket, faults, missing, calls) ==
  IF i > Len(keys) THEN [missing |-> missing, err |-> FALSE, calls |-> calls]
  ELSE LET r == ObjectExists(keys[i], bucket, i \in faults)
       IN IF ~r.exists
          THEN [missing |-> Append(missing, keys[i]), err |-> FALSE,
                calls |-> Append(calls, r.call)]
          ELSE VerifyLoop_stopAtMiss(keys, i + 1, bucket, faults, missing,
                                     Append(calls, r.call))

\* the loop of VerifyObjectsExist from the i-th key on; faults: the indices of
\* the keys whose HeadObject call fails with a transport or authorization error
RECURSIVE VerifyLoop(_, _, _, _, _, _)
VerifyLoop(keys, i, bucket, faults, missing, calls) ==
  IF i > Len(keys) THEN [missing |-> missing, err |-> FALSE, calls |-> calls]
  ELSE LET r == ObjectExists(keys[i], bucket, i \in faults)
       IN IF r.err
          THEN [missing |-> <<>>, err |-> TRUE, calls |-> Append(calls, r.call)]
          ELSE VerifyLoop(keys, i + 1, bucket, faults,
                          IF r.exists THEN missing ELSE Append(missing, keys[i]),
                          Append(calls, r.call))

\* (*Presigner).VerifyObjectsExist
VerifyObjectsExist(keys, bucket, faults) ==
  VerifyLoop(keys, 1, bucket, faults, <<>>, <<>>)

(***************************************************************************)
(* internal/email: Sender                                                  *)
(***************************************************************************)
\* (*Sender).SendFailureNotification; fail: SES SendEmail returns an error
SendFailureNotification(notif, fail) ==
  [err |-> fail,
   call |-> Call("SendEmail", EmptyStr, EmptyStr, notif,
                 IF fail THEN "error" ELSE "ok")]

(***************************************************************************)
(* internal/models and the responses the handlers write                    *)
(***************************************************************************)
\* models.PresignedUpload
PresignedUpload(key, url) == [Key |-> key, PutURL |-> url]

NoBody == [type |-> "none"]

NoResponse == [status |-> 0, body |-> NoBody]

\* (*Handler).writeJSON
writeJSON(status, data) == [status |-> status, body |-> data]

\* (*Handler).writeError
writeError(status, code, message, details) ==
  writeJSON(status, [type |-> "ErrorResponse", Error |-> message,
                     Code |-> code, Details |-> details])

\* (*Handler).writeValidationErrors
writeValidationErrors(errs) ==
  LET messages == [i \in 1..Len(errs) |-> ErrorText(errs[i])]
  IN writeError(400, code_validation_error, msg_validation_failed, EmptyStr)

\* the text of the error json.Decoder.Decode returns for a body that is no JSON
DecodeErrorText ==
  <<"u","n","e","x","p","e","c","t","e","d"," ","E","O","F">>

(***************************************************************************)
(* internal/handlers: Handler                                              *)
(***************************************************************************)
\* NewHandler(cfg, presigner, emailer); emailer is "nil" or "sender"
NewHandler(cfg, emailer) == [cfg |-> cfg, emailer |-> emailer]

\* the content type a slot is presigned with: the declared one, or the default
ContentTypeOr(declared) ==
  IF declared = EmptyStr THEN str_application_octet_stream ELSE declared

\* FileSlots that skips an attachment whose name an earlier one carries
RECURSIVE FileSlots_dedup(_, _)
FileSlots_dedup(kb, files) ==
  IF files = <<>> THEN <<>>
  ELSE LET n == Len(files)
           last == files[n]
           front == SubSeq(files, 1, n - 1)
       IN IF \E i \in 1..(n - 1) : files[i].Filename = last.Filename
          THEN FileSlots_dedup(kb, front)
          ELSE FileSlots_dedup(kb, front)
               \o <<[key |-> File(kb, last.Filename),
                     contentType |-> ContentTypeOr(last.ContentType)]>>

\* the keys and content types generatePresignedURLs presigns for the files
RECURSIVE FileSlots(_, _)
FileSlots(kb, files) ==
  IF files = <<>> THEN <<>>
  ELSE <<[key |-> File(kb, Head(files).Filename),
          contentType |-> ContentTypeOr(Head(files).ContentType)]>>
       \o FileSlots(kb, Tail(files))

\* the PresignPut calls of generatePresignedURLs, in the order it makes them
Slots(kb, req) ==
  <<[key |-> Envelope(kb), contentType |-> str_application_json],
    [key |-> RequestRaw(kb), contentType |-> ContentTypeOr(req.Request.ContentType)],
    [key |-> RequestHeaders(kb), contentType |-> str_application_json],
    [key |-> ResponseRaw(kb), contentType |-> str_application_octet_stream],
    [key |-> Checksums(kb), contentType |-> str_application_json]>>
  \o FileSlots(kb, req.Request.Files)

\* the PresignPut calls made for the slots of a ticket up to the failing one
PresignResults(slots, failAt) ==
  [i \in 1..(IF failAt \in 1..Len(slots) THEN failAt ELSE Len(slots)) |->
     PresignPut(slots[i].key, slots[i].contentType, i = failAt)]

\* models.UploadURLs filled from the results of the PresignPut calls
UploadURLs(slots, results) ==
  LET up(i) == PresignedUpload(slots[i].key, results[i].url)
  IN [Envelope |-> up(1), RequestRaw |-> up(2), RequestHeaders |-> up(3),
      ResponseRaw |-> up(4), Checksums |-> up(5),
      Files |-> [i \in 1..(Len(slots) - 5) |-> up(i + 5)]]

\* PresignOutcome in which only the PresignPut errors of the fixed slots count
PresignOutcome_partial(slots, results) ==
  IF \E i \in DOMAIN results : i <= 5 /\ results[i].err
  THEN [err |-> TRUE, calls |-> [i \in DOMAIN results |-> results[i].call]]
  ELSE [err |-> FALSE, calls |-> [i \in DOMAIN results |-> results[i].call],
        uploads |-> UploadURLs(slots, results)]

\* what generatePresignedURLs returns after its PresignPut calls
PresignOutcome(slots, results) ==
  IF \E i \in DOMAIN results : results[i].err
  THEN [err |-> TRUE, calls |-> [i \in DOMAIN results |-> results[i].call]]
  ELSE [err |-> FALSE, calls |-> [i \in DOMAIN results |-> results[i].call],
        uploads |-> UploadURLs(slots, results)]

\* the slots of a ticket request presigned one after the other
PresignSlots(slots, failAt) == PresignOutcome(slots, PresignResults(slots, failAt))

\* (*Handler).generatePresignedURLs; failAt: the number of the PresignPut call
\* that fails (0: none does)
generatePresignedURLs(kb, req, failAt) == PresignSlots(Slots(kb, req), failAt)

\* the response of UploadTicket once the request is validated and presigned
TicketResponse_probing(h, failureID, keyBuilder, g) ==
  IF g.err
  THEN [resp |-> writeError(500, code_presign_failed, msg_presign_failed, EmptyStr),
        calls |-> g.calls]
  ELSE [resp |-> writeJSON(200, [type |-> "UploadTicketResponse",
                                 FailureID |-> failureID,
                                 S3Prefix |-> Prefix(keyBuilder),
                                 Uploads |-> g.uploads,
                                 ExpiresInSeconds |-> h.cfg.PresignTTLSeconds]),
        calls |-> Append(g.calls,
                         Call("HeadObject", Envelope(keyBuilder), EmptyStr,
                              NoNotification, "notfound"))]

\* the end of UploadTicket: g is the result of generatePresignedURLs
TicketResponse(h, failureID, keyBuilder, g) ==
  IF g.err
  THEN [resp |-> writeError(500, code_presign_failed, msg_presign_failed, EmptyStr),
        calls |-> g.calls]
  ELSE [resp |-> writeJSON(200, [type |-> "UploadTicketResponse",
                                 FailureID |-> failureID,
                                 S3Prefix |-> Prefix(keyBuilder),
                                 Uploads |-> g.uploads,
                                 ExpiresInSeconds |-> h.cfg.PresignTTLSeconds]),
        calls |-> g.calls]

\* UploadTicket that requests the write-authorizations before it looks at the
\* validation errors
UploadTicketDecoded_presignFirst(h, req, errs, failureID, clock, failAt) ==
  IF Len(errs) > 0
  THEN [resp |-> writeValidationErrors(errs),
        calls |-> generatePresignedURLs(
                    NewBuilder(req.Project, req.Env, failureID, clock),
                    req, failAt).calls]
  ELSE TicketResponse(h, failureID,
                      NewBuilder(req.Project, req.Env, failureID, clock),
                      generatePresignedURLs(
                        NewBuilder(req.Project, req.Env, failureID, clock),
                        req, failAt))

\* UploadTicket after the body was decoded, errs being the validation errors
UploadTicketDecoded(h, req, errs, failureID, clock, failAt) ==
  IF Len(errs) > 0
  THEN [resp |-> writeValidationErrors(errs), calls |-> <<>>]
  ELSE TicketResponse(h, failureID,
                      NewBuilder(req.Project, req.Env, failureID, clock),
                      generatePresignedURLs(
                        NewBuilder(req.Project, req.Env, failureID, clock),
                        req, failAt))

\* (*Handler).UploadTicket: the response it writes and the calls it makes.
\* decoded: the body parsed as JSON; failureID: the value of uuid.New();
\* clock: the value of time.Now().UTC()
UploadTicket(h, decoded, req, failureID, clock, failAt) ==
  IF ~decoded
  THEN [resp |-> writeError(400, code_invalid_json, msg_parse_failed, DecodeErrorText),
        calls |-> <<>>]
  ELSE UploadTicketDecoded(h, req, ValidateUploadTicketRequest(req, h.cfg),
                           failureID, clock, failAt)

\* the notification UploadComplete builds
Notification(req, envelopeURL) ==
  [NoNotification EXCEPT !.FailureID = req.FailureID,
                         !.Project = req.Project,
                         !.Env = req.Env,
                         !.EnvelopeURL = envelopeURL]

\* the envelope URL UploadComplete goes on with after PresignGet
EnvelopeURLOf(g) == IF g.err THEN EmptyStr ELSE g.url

\* the notification step that gives up when PresignGet failed
NotifyAndAnswer_failOnGet(h, req, g, sendFail) ==
  IF g.err
  THEN [resp |-> writeError(500, code_verification_failed,
                            msg_verification_failed, EmptyStr),
        calls |-> <<g.call>>]
  ELSE [resp |-> writeJSON(200, [type |-> "UploadCompleteResponse",
                                 Status |-> str_ok]),
        calls |-> <<g.call>> \o
                  (IF h.emailer # "nil"
                   THEN <<SendFailureNotification(
                            Notification(req, EnvelopeURLOf(g)), sendFail).call>>
                   ELSE <<>>)]

\* the notification step that answers 500 when the send fails
NotifyAndAnswer_failOnMail(h, req, g, sendFail) ==
  IF h.emailer # "nil" /\ sendFail
  THEN [resp |-> writeError(500, code_verification_failed,
                            msg_verification_failed, EmptyStr),
        calls |-> <<g.call,
                    SendFailureNotification(
                      Notification(req, EnvelopeURLOf(g)), sendFail).call>>]
  ELSE [resp |-> writeJSON(200, [type |-> "UploadCompleteResponse",
                                 Status |-> str_ok]),
        calls |-> <<g.call>> \o
                  (IF h.emailer # "nil"
                   THEN <<SendFailureNotification(
                            Notification(req, EnvelopeURLOf(g)), sendFail).call>>
                   ELSE <<>>)]

\* the notification step that sends a failed notification a second time
NotifyAndAnswer_resend(h, req, g, sendFail) ==
  [resp |-> writeJSON(200, [type |-> "UploadCompleteResponse", Status |-> str_ok]),
   calls |-> <<g.call>> \o
             (IF h.emailer # "nil"
              THEN <<SendFailureNotification(
                       Notification(req, EnvelopeURLOf(g)), sendFail).call>>
                   \o (IF sendFail
                       THEN <<SendFailureNotification(
                                Notification(req, EnvelopeURLOf(g)), FALSE).call>>
                       ELSE <<>>)
              ELSE <<>>)]

\* (*Handler).UploadComplete after PresignGet returned g: the notification
\* and the acknowledgment
NotifyAndAnswer(h, req, g, sendFail) ==
  [resp |-> writeJSON(200, [type |-> "UploadCompleteResponse", Status |-> str_ok]),
   calls |-> <<g.call>> \o
             (IF h.emailer # "nil"
              THEN <<SendFailureNotification(
                       Notification(req, EnvelopeURLOf(g)), sendFail).call>>
              ELSE <<>>)]

\* (*Handler).UploadComplete once every claimed key was found: the envelope
\* URL, the notification and the acknowledgment
UploadCompleteVerified(h, req, clock, getFail, sendFail) ==
  NotifyAndAnswer(
    h, req,
    PresignGet(Envelope(NewBuilder(req.Project, req.Env, req.FailureID, clock)),
               getFail),
    sendFail)

\* a response and the calls made before it, after earlier calls
After(earlier, done) == [resp |-> done.resp, calls |-> earlier \o done.calls]

\* UploadComplete after VerifyObjectsExist returned v
UploadCompleteChecked(h, req, v, clock, getFail, sendFail) ==
  IF v.err
  THEN [resp |-> writeError(500, code_verification_failed,
                            msg_verification_failed, EmptyStr),
        calls |-> v.calls]
  ELSE IF Len(v.missing) > 0
  THEN [resp |-> writeError(400, code_missing_objects, msg_missing_objects, EmptyStr),
        calls |-> v.calls]
  ELSE After(v.calls, UploadCompleteVerified(h, req, clock, getFail, sendFail))

\* UploadComplete after the body was decoded, errs being the validation errors
UploadCompleteDecoded(h, req, errs, bucket, clock, faults, getFail, sendFail) ==
  IF Len(errs) > 0
  THEN [resp |-> writeValidationErrors(errs), calls |-> <<>>]
  ELSE UploadCompleteChecked(h, req,
                             VerifyObjectsExist(req.UploadedKeys, bucket, faults),
                             clock, getFail, sendFail)

\* (*Handler).UploadComplete: the response it writes and the calls it makes.
\* faults, getFail, sendFail: the outcomes of the storage and mail calls
UploadComplete(h, decoded, req, bucket, clock, faults, getFail, sendFail) ==
  IF ~decoded
  THEN [resp |-> writeError(400, code_invalid_json, msg_parse_failed, DecodeErrorText),
        calls |-> <<>>]
  ELSE UploadCompleteDecoded(h, req, ValidateUploadCompleteRequest(req),
                             bucket, clock, faults, getFail, sendFail)

(***************************************************************************)
(* internal/config, internal/middleware, internal/router: the routes and   *)
(* the API key                                                             *)
(***************************************************************************)
str_dev == <<"d","e","v">>

\* getEnv(key, defaultVal), val being the value of the variable in the
\* environment (empty when it is not set)
getEnv(val, defaultVal) == IF val # EmptyStr THEN val ELSE defaultVal

\* AuthEnabled with the test of the stage left out
LoadAuth_keyOnly(environ) ==
  [APIKey |-> environ.API_KEY,
   Stage |-> getEnv(environ.STAGE, str_dev),
   AuthEnabled |-> environ.API_KEY # EmptyStr]

\* config.Load: the fields APIKey, Stage and AuthEnabled
LoadAuth(environ) ==
  [APIKey |-> environ.API_KEY,
   Stage |-> getEnv(environ.STAGE, str_dev),
   AuthEnabled |-> environ.API_KEY # EmptyStr
                   /\ getEnv(environ.STAGE, str_dev) # str_dev]

str_GET == <<"G","E","T">>

str_POST == <<"P","O","S","T">>

str_OPTIONS == <<"O","P","T","I","O","N","S">>

path_health == <<"/","h","e","a","l","t","h">>

path_v1 == <<"/","v","1">>

path_upload_ticket == <<"/","u","p","l","o","a","d","-","t","i","c","k","e","t">>

path_upload_complete == <<"/","u","p","l","o","a","d","-","c","o","m","p","l","e","t","e">>

code_unauthorized == <<"u","n","a","u","t","h","o","r","i","z","e","d">>

msg_missing_api_key == <<"M","i","s","s","i","n","g"," ","A","P","I"," ","k","e","y">>

msg_invalid_api_key == <<"I","n","v","a","l","i","d"," ","A","P","I"," ","k","e","y">>

\* what the router answers without a handler of the service being reached
Unserved(status) == [reached |-> "none", resp |-> [status |-> status, body |-> NoBody],
                     calls |-> <<>>]

\* http.Error(w, `{"error":...,"code":"unauthorized"}`, 401)
Unauthorized(message) ==
  [reached |-> "none",
   resp |-> writeError(401, code_unauthorized, message, EmptyStr),
   calls |-> <<>>]

\* (*Handler).HealthCheck
HealthCheck ==
  [reached |-> "HealthCheck",
   resp |-> writeJSON(200, [type |-> "HealthResponse", status |-> "healthy"]),
   calls |-> <<>>]

\* a handler of the service reached, with the response and the calls it made
Reached(name, out) == [reached |-> name, resp |-> out.resp, calls |-> out.calls]

\* the routes of the /v1 subrouter, behind its middleware
RouteV1(h, r) ==
  IF r.path = path_v1 \o path_upload_ticket
  THEN IF r.method = str_POST
       THEN Reached("UploadTicket",
                    UploadTicket(h, TRUE, r.ticket, r.failureID, r.clock, 0))
       ELSE Unserved(405)
  ELSE IF r.path = path_v1 \o path_upload_complete
  THEN IF r.method = str_POST
       THEN Reached("UploadComplete",
                    UploadComplete(h, TRUE, r.complete, {}, r.clock, {}, FALSE, FALSE))
       ELSE Unserved(405)
  ELSE Unserved(404)

\* middleware.APIKeyAuth(apiKey, enabled) around the /v1 routes
APIKeyAuth(apiKey, enabled, h, r) ==
  IF ~enabled THEN RouteV1(h, r)
  ELSE IF r.apiKey = EmptyStr THEN Unauthorized(msg_missing_api_key)
  ELSE IF r.apiKey # apiKey THEN Unauthorized(msg_invalid_api_key)
  ELSE RouteV1(h, r)

\* the routes router.New registers
Routes(cfg, h, r) ==
  IF r.path = path_health
  THEN IF r.method = str_GET THEN HealthCheck ELSE Unserved(405)
  ELSE IF HasPrefix(r.path, path_v1 \o <<"/">>)
  THEN APIKeyAuth(cfg.APIKey, cfg.AuthEnabled, h, r)
  ELSE Unserved(404)

\* middleware.CORS around every route, and the handler router.New returns
ServeHTTP(cfg, h, r) ==
  IF r.method = str_OPTIONS THEN Unserved(200) ELSE Routes(cfg, h, r)

(***************************************************************************)
(* Bounds and the inputs the clients draw from                             *)
(***************************************************************************)
\* tickets the clients hold at a time
MaxTickets == 1

\* completion requests acknowledged with "ok" in one run
MaxCompletions == 2

\* HeadObject calls of one request that fail with a transport error
MaxFaults == 1

\* changes of the UTC date in one run
MaxTicks == 1

\* attachments declared in one ticket request
MaxFiles == 2

\* the UTC date after n changes of date: 2024-03-31, 2024-04-01, 2024-04-02, ...
DateOf(n) ==
  IF n = 0 THEN [y |-> 2024, m |-> 3, d |-> 31] ELSE [y |-> 2024, m |-> 4, d |-> n]

\* the values uuid.New().String() can return
UUIDs == {<<"b","1">>, <<"b","2">>}

in_app == <<"a","p","p">>

in_prod == <<"p","r","o","d">>

in_post == <<"p","o","s","t">>

in_url == <<"h","t","t","p","s",":","/","/","x">>

in_version == <<"1",".","0">>

in_iOS == <<"i","O","S">>

in_text_plain == <<"t","e","x","t","/","p","l","a","i","n">>

in_a_txt == <<"a",".","t","x","t">>

in_sum == <<"a","b">>

\* models.FileInfo
FileInfo(filename, contentType, bytes) ==
  [Name |-> filename, Filename |-> filename, ContentType |-> contentType,
   Bytes |-> bytes]

\* models.UploadTicketRequest
TicketRequest(project, env, method, url, contentType, bodyBytes, files, platform) ==
  [Project |-> project, Env |-> env,
   Request |-> [Method |-> method, URL |-> url, ContentType |-> contentType,
                BodyBytes |-> bodyBytes, Files |-> files],
   Client |-> [AppVersion |-> in_version, Platform |-> platform]]

ZeroTicketRequest ==
  [Project |-> EmptyStr, Env |-> EmptyStr,
   Request |-> [Method |-> EmptyStr, URL |-> EmptyStr, ContentType |-> EmptyStr,
                BodyBytes |-> 0, Files |-> <<>>],
   Client |-> [AppVersion |-> EmptyStr, Platform |-> EmptyStr]]

\* the attachment lists of the ticket requests: n files named a.txt, the
\* first at the per-file ceiling
FileList(n) ==
  [i \in 1..n |->
     FileInfo(in_a_txt, IF i = 1 THEN in_text_plain ELSE EmptyStr,
              IF i = 1 THEN DefaultMaxFileBytes ELSE 0)]

\* ticket requests that pass validation
ValidTicketRequests ==
  {TicketRequest(in_app, in_prod, in_post, in_url,
                 IF n = 0 THEN EmptyStr ELSE in_text_plain,
                 IF n = 0 THEN DefaultMaxBodyBytes ELSE 0,
                 FileList(n), in_iOS) : n \in 0..MaxFiles}

\* ticket requests the validation gate rejects
InvalidTicketRequests ==
  {ZeroTicketRequest,
   TicketRequest(in_app, in_prod, in_post, in_url, EmptyStr, 0,
                 <<FileInfo(in_a_txt, EmptyStr, 62914560)>>, in_iOS),
   TicketRequest(in_app, in_prod, in_post, in_url, EmptyStr,
                 DefaultMaxBodyBytes + 1, <<>>, in_iOS),
   TicketRequest(in_app, in_prod, in_post, in_url, EmptyStr, DefaultMaxBodyBytes,
                 <<FileInfo(in_a_txt, EmptyStr, DefaultMaxFileBytes),
                   FileInfo(in_a_txt, EmptyStr, DefaultMaxFileBytes)>>, in_iOS),
   TicketRequest(in_app, in_prod, in_post, in_url, EmptyStr, 0,
                 <<FileInfo(EmptyStr, EmptyStr, 0)>>, in_iOS)}

TicketRequests == ValidTicketRequests \cup InvalidTicketRequests

\* models.UploadCompleteRequest; a nil SHA256 map is [isNil |-> TRUE]
CompleteRequest(failureID, project, env, uploadedKeys, sha256) ==
  [FailureID |-> failureID, Project |-> project, Env |-> env,
   UploadedKeys |-> uploadedKeys, SHA256 |-> sha256]

NilMap == [isNil |-> TRUE, entries |-> {}]

MapOf(entries) == [isNil |-> FALSE, entries |-> entries]

ZeroCompleteRequest == CompleteRequest(EmptyStr, EmptyStr, EmptyStr, <<>>, NilMap)

\* the keys of a ticket, in the order the ticket lists its slots
TicketKeys(body) ==
  <<body.Uploads.Envelope.Key, body.Uploads.RequestRaw.Key,
    body.Uploads.RequestHeaders.Key, body.Uploads.ResponseRaw.Key,
    body.Uploads.Checksums.Key>>
  \o [i \in 1..Len(body.Uploads.Files) |-> body.Uploads.Files[i].Key]

\* the keys of the four required slots of a ticket
TicketRequiredKeys(body) ==
  <<body.Uploads.Envelope.Key, body.Uploads.RequestRaw.Key,
    body.Uploads.RequestHeaders.Key, body.Uploads.Checksums.Key>>

\* a sequence without its i-th element
DropAt(seq, i) == SubSeq(seq, 1, i - 1) \o SubSeq(seq, i + 1, Len(seq))

\* the key lists a client claims for a ticket it holds: every key of the
\* ticket, the required four, the required four but one, the envelope alone,
\* the envelope twice, the required four in reverse, and none
ClaimLists(body) ==
  LET req4 == TicketRequiredKeys(body)
  IN {TicketKeys(body), req4, <<req4[1]>>, <<req4[1], req4[1]>>,
      <<req4[4], req4[3], req4[2], req4[1]>>, <<>>}
     \cup {DropAt(req4, i) : i \in 1..4}

\* the checksum maps a client sends with a claim for a ticket: none, an empty
\* one, and one with an entry for the envelope key
ChecksumMaps(body) ==
  {NilMap, MapOf({}), MapOf({<<body.Uploads.Envelope.Key, in_sum>>})}

\* "../../../../.."
in_escape == JoinWith(<<DotDot, DotDot, DotDot, DotDot, DotDot>>, <<"/">>)

\* failure ids a client sends that no ticket carries
ForgedIDs == {DotDot, in_escape}

\* the completion requests of the holder of a ticket
CompleteRequestsFor(t) ==
  {CompleteRequest(t.body.FailureID, t.req.Project, t.req.Env, keys, sha) :
     keys \in ClaimLists(t.body), sha \in ChecksumMaps(t.body)}
  \cup {CompleteRequest(id, t.req.Project, t.req.Env, TicketRequiredKeys(t.body), NilMap) :
          id \in ForgedIDs \cup {EmptyStr}}

\* attachment names of one key derivation
MaxNames == 2

\* "../../b2/envelope.json"
in_traversal ==
  DotDot \o <<"/">> \o DotDot \o <<"/">> \o <<"b","2">> \o <<"/">> \o str_envelope_json

\* "x/../a.txt"
in_detour == <<"x","/">> \o DotDot \o <<"/">> \o in_a_txt

\* the attachment names the key derivation is applied to
KeyFileNames == {in_a_txt, in_traversal, in_detour, <<".">>, EmptyStr}

\* the sequences of at most n elements of a set
RECURSIVE SeqsUpTo(_, _)
SeqsUpTo(S, n) ==
  IF n = 0 THEN {<<>>}
  ELSE LET shorter == SeqsUpTo(S, n - 1)
       IN shorter \cup {Append(q, x) : q \in shorter, x \in S}

\* the bundle ids a Builder is made with: the ids of tickets, and failureId
\* values of completion requests, which UploadComplete hands over as received
KeyBundleIDs == UUIDs \cup {<<"b">>, <<"b","/","1">>, DotDot}

\* a bundle identity with its attachment names
KeyInputs(n) ==
  [project : {in_app}, env : {in_prod}, bundleID : KeyBundleIDs,
   date : {DateOf(0), DateOf(1)}, filenames : SeqsUpTo(KeyFileNames, n)]

NoKeyInput ==
  [a |-> [project |-> EmptyStr, env |-> EmptyStr, bundleID |-> EmptyStr,
          date |-> DateOf(0), filenames |-> <<>>],
   b |-> [project |-> EmptyStr, env |-> EmptyStr, bundleID |-> EmptyStr,
          date |-> DateOf(0), filenames |-> <<>>]]

NoKeyOutput == [derived |-> FALSE]

\* the keys of one identity: NewBuilder(...).WithDate(date) and its methods
Derive(x) ==
  LET b == WithDate(NewBuilder(x.project, x.env, x.bundleID, DateOf(0)), x.date)
  IN [prefix |-> Prefix(b), envelope |-> Envelope(b),
      requestRaw |-> RequestRaw(b), requestHeaders |-> RequestHeaders(b),
      responseRaw |-> ResponseRaw(b), checksums |-> Checksums(b),
      files |-> [i \in 1..Len(x.filenames) |-> File(b, x.filenames[i])],
      required |-> RequiredKeys(b), all |-> AllKeys(b, x.filenames)]

\* API keys: the one of the deployment and another one
in_key1 == <<"k","1">>

in_key2 == <<"k","2">>

\* an environment in which neither API_KEY nor STAGE is set
NoEnviron == [API_KEY |-> EmptyStr, STAGE |-> EmptyStr]

\* the environments the process is started in
Environs ==
  [API_KEY : {EmptyStr, in_key1},
   STAGE : {EmptyStr, str_dev, in_prod, <<"s","t","a","g","i","n","g">>}]

\* the completion request of the requests sent through the router
RoutedCompleteRequest ==
  CompleteRequest(<<"b","1">>, in_app, in_prod,
                  <<Envelope(NewBuilder(in_app, in_prod, <<"b","1">>, DateOf(0)))>>,
                  NilMap)

\* an HTTP request: method, path, X-Api-Key header, and what the handlers
\* read when it reaches them
HTTPRequest(method, path, apiKey, ticket) ==
  [method |-> method, path |-> path, apiKey |-> apiKey, ticket |-> ticket,
   complete |-> RoutedCompleteRequest, failureID |-> <<"b","1">>, clock |-> DateOf(0)]

NoHTTPRequest ==
  [req |-> HTTPRequest(EmptyStr, EmptyStr, EmptyStr, ZeroTicketRequest),
   reached |-> "none"]

\* the requests sent through the router
HTTPRequests ==
  {HTTPRequest(m, p, k, t) :
     m \in {str_GET, str_POST, str_OPTIONS},
     p \in {path_health, path_v1 \o path_upload_ticket,
            path_v1 \o path_upload_complete, path_v1 \o path_health,
            path_upload_ticket},
     k \in {EmptyStr, in_key1, in_key2},
     t \in {ZeroTicketRequest,
            TicketRequest(in_app, in_prod, in_post, in_url, EmptyStr, 0, <<>>, in_iOS)}}

\* a string of n letters
Letters(n) == [i \in 1..n |-> "a"]

\* the ticket requests sent to the validation gate: every field takes values
\* on both sides of each of its rules
GateTicketRequests ==
  {TicketRequest(project, env, method, url, EmptyStr, bodyBytes, files, platform) :
     project \in {EmptyStr, in_app, <<"a","/","b">>, Letters(64), Letters(65)},
     env \in {EmptyStr, in_prod, Letters(32), Letters(33)},
     method \in {EmptyStr, in_post, <<"F","O","O">>},
     url \in {EmptyStr, in_url, <<"f","t","p",":","/","/","x">>},
     bodyBytes \in {0 - 1, 0, DefaultMaxBodyBytes, DefaultMaxBodyBytes + 1},
     files \in {<<>>,
                <<FileInfo(in_a_txt, EmptyStr, DefaultMaxFileBytes)>>,
                <<FileInfo(in_a_txt, EmptyStr, DefaultMaxFileBytes + 1)>>,
                <<FileInfo(EmptyStr, EmptyStr, 0 - 1)>>,
                <<FileInfo(in_a_txt, EmptyStr, DefaultMaxFileBytes),
                  FileInfo(in_a_txt, EmptyStr,
                           DefaultMaxTotalBytes - DefaultMaxFileBytes)>>},
     platform \in {EmptyStr, in_iOS, <<"t","v">>}}

\* the completion requests sent to the validation gate
GateCompleteRequests ==
  {CompleteRequest(failureID, project, env, uploadedKeys, sha) :
     failureID \in {EmptyStr, <<"b","1">>, DotDot},
     project \in {EmptyStr, in_app, <<"a","/","b">>, Letters(64), Letters(65)},
     env \in {EmptyStr, in_prod, Letters(32), Letters(33)},
     uploadedKeys \in {<<>>, <<str_envelope_json>>,
                       <<str_envelope_json, str_request_raw>>},
     sha \in {NilMap, MapOf({<<str_envelope_json, in_sum>>})}}

(***************************************************************************)
(* The service and its clients as a state machine                          *)
(***************************************************************************)
(***************************************************************************)
(* cmd/lambda: the request body and its reader                             *)
(***************************************************************************)
\* bytes of a request body
MaxBody == 3

\* len(p) of the buffers a consumer hands to Read
MaxReadLen == 2

\* the bytes of the bodies: the brackets of JSON objects and arrays
BodyBytes == {"{", "}", "[", "]"}

\* the non-empty bodies an invocation carries
LambdaBodies == UNION {[1..n -> BodyBytes] : n \in 1..MaxBody}

\* &stringReader{s: req.Body, i: 0}
NewStringReader(body) == [s |-> body, i |-> 0]

\* (*stringReader).Read with a buffer p of lenp bytes: the bytes copied into
\* p, n and err, and the reader afterwards
Read(sr, lenp) ==
  IF sr.i >= Len(sr.s)
  THEN [p |-> <<>>, n |-> 0, err |-> "nil", sr |-> sr]
  ELSE [p |-> SubSeq(sr.s, sr.i + 1,
                     sr.i + (IF lenp < Len(sr.s) - sr.i
                             THEN lenp ELSE Len(sr.s) - sr.i)),
        n |-> IF lenp < Len(sr.s) - sr.i THEN lenp ELSE Len(sr.s) - sr.i,
        err |-> "nil",
        sr |-> [sr EXCEPT !.i = @ + (IF lenp < Len(sr.s) - sr.i
                                     THEN lenp ELSE Len(sr.s) - sr.i)]]

\* the scanner of the JSON decoder before the first byte: the stack of open
\* containers, the kind of the top-level value and how far the value is
NewScanner == [stack |-> <<>>, kind |-> "none", status |-> "more"]

\* the scanner after the value on top of the stack ended
EndValue(sc) ==
  IF Len(sc.stack) = 1
  THEN [sc EXCEPT !.stack = <<>>, !.status = "done"]
  ELSE [sc EXCEPT !.stack = SubSeq(sc.stack, 1, Len(sc.stack) - 2)
                              \o <<"arrayAfterValue">>]

\* the scanner after one more byte: an object of these bytes can only be
\* closed, an array takes a value or is closed, and after a value is closed
ScanByte(sc, c) ==
  IF sc.status # "more" THEN sc
  ELSE IF sc.stack = <<>>
  THEN IF c = "{" THEN [sc EXCEPT !.stack = <<"object">>, !.kind = "object"]
       ELSE IF c = "[" THEN [sc EXCEPT !.stack = <<"array">>, !.kind = "array"]
       ELSE [sc EXCEPT !.status = "error"]
  ELSE IF sc.stack[Len(sc.stack)] = "object"
  THEN IF c = "}" THEN EndValue(sc) ELSE [sc EXCEPT !.status = "error"]
  ELSE IF sc.stack[Len(sc.stack)] = "array"
  THEN IF c = "]" THEN EndValue(sc)
       ELSE IF c = "{" THEN [sc EXCEPT !.stack = Append(@, "object")]
       ELSE IF c = "[" THEN [sc EXCEPT !.stack = Append(@, "array")]
       ELSE [sc EXCEPT !.status = "error"]
  ELSE IF c = "]" THEN EndValue(sc) ELSE [sc EXCEPT !.status = "error"]

RECURSIVE Scan(_, _)
Scan(sc, bytes) ==
  IF bytes = <<>> THEN sc ELSE Scan(ScanByte(sc, Head(bytes)), Tail(bytes))

\* one round of (*Decoder).Decode on r.Body: it reads into its buffer, scans
\* what it got, and only then looks at the error of the read; io.EOF before
\* the value is complete ends the decoding with an error
DecodeRound(sr, sc, lenp) ==
  LET r == Read(sr, lenp)
      scanned == Scan(sc, r.p)
  IN [sr |-> r.sr,
      scan |-> IF scanned.status = "more" /\ r.err = "EOF"
               THEN [scanned EXCEPT !.status = "error"]
               ELSE scanned]

\* json.NewDecoder(r.Body).Decode(&req) gave no error: the body held a JSON
\* object; an array cannot be decoded into the request
Decoded(sc) == sc.status = "done" /\ sc.kind = "object"

NoLambda ==
  [phase |-> "none", sr |-> NewStringReader(<<>>), scan |-> NewScanner,
   StatusCode |-> 0]

VARIABLES
  emailer,    \* Handler.emailer: "sender", or "nil" when email.NewSender failed
  clock,      \* the number of date changes since the start: time.Now()
  bucket,     \* the keys of the objects in the bucket
  tickets,    \* the tickets the clients hold, with their upload progress
  lastReq,    \* the request handled last
  resp,       \* the response written to it
  calls,      \* the storage and mail calls made while handling it
  okCount,    \* bag of bundles: completion requests acknowledged with "ok"
  sendCount,  \* bag of bundles: SendEmail calls made
  keyIn,      \* two bundle identities with their attachment names
  keyOut,     \* the keys the Builder derives for them
  lambda,     \* an invocation of the Lambda handler: the body reader, the decoder
  environ,    \* the environment of the process: API_KEY and STAGE
  httpReq     \* the request the router served last, and the handler it reached

vars ==
  <<emailer, clock, bucket, tickets, lastReq, resp, calls, okCount, sendCount,
    keyIn, keyOut, environ, httpReq, lambda>>

\* the variables of the key derivation on its own
keyVars == <<keyIn, keyOut>>

\* the variables of the router on its own
routerVars == <<environ, httpReq>>

\* the variables the handlers of the service leave alone
otherVars == <<keyVars, routerVars, lambda>>

\* the variables of the service
serviceVars ==
  <<emailer, clock, bucket, tickets, lastReq, resp, calls, okCount, sendCount>>

NoRequest ==
  [route |-> "none", decoded |-> FALSE,
   ticket |-> ZeroTicketRequest, complete |-> ZeroCompleteRequest]

\* the handler the process serves requests with: cmd/server main, cmd/lambda init
TheHandler == NewHandler(Load, emailer)

\* the identity a completion request or a notification names
BundleOf(r) == [Project |-> r.Project, Env |-> r.Env, FailureID |-> r.FailureID]

\* the notifications among a list of calls
SendCalls(cs) == {i \in DOMAIN cs : cs[i].op = "SendEmail"}

Init ==
  /\ emailer \in {"sender", "nil"}
  /\ clock = 0
  /\ bucket = {}
  /\ tickets = {}
  /\ lastReq = NoRequest
  /\ resp = NoResponse
  /\ calls = <<>>
  /\ okCount = EmptyBag
  /\ sendCount = EmptyBag
  /\ keyIn = NoKeyInput
  /\ keyOut = NoKeyOutput
  /\ environ = NoEnviron
  /\ httpReq = NoHTTPRequest
  /\ lambda = NoLambda

\* no request is being handled
Idle == lastReq.route = "none"

\* POST /v1/upload-ticket
DoUploadTicket ==
  /\ Idle
  /\ Cardinality(tickets) < MaxTickets
  /\ \E decoded \in BOOLEAN :
       \E req \in (IF decoded THEN TicketRequests ELSE {ZeroTicketRequest}) :
         \E failureID \in UUIDs \ {t.body.FailureID : t \in tickets} :
           \E failAt \in (IF decoded /\ req \in ValidTicketRequests
                          THEN 0..(5 + Len(req.Request.Files)) ELSE {0}) :
             \E out \in {UploadTicket(TheHandler, decoded, req, failureID,
                                     DateOf(clock), failAt)} :
                /\ lastReq' = [NoRequest EXCEPT !.route = "upload-ticket",
                                                !.decoded = decoded, !.ticket = req]
                /\ resp' = out.resp
                /\ calls' = out.calls
  /\ UNCHANGED <<emailer, clock, bucket, tickets, okCount, sendCount, otherVars>>

\* POST /v1/upload-complete
DoUploadComplete ==
  /\ Idle
  /\ BagCardinality(okCount) < MaxCompletions
  /\ \E decoded \in BOOLEAN :
       \E req \in (IF decoded
                   THEN UNION {CompleteRequestsFor(t) : t \in tickets}
                   ELSE {ZeroCompleteRequest}) :
         \E faults \in {f \in SUBSET (1..Len(req.UploadedKeys)) :
                          Cardinality(f) <= MaxFaults} :
           \E getFail \in BOOLEAN, sendFail \in BOOLEAN :
             \E out \in {UploadComplete(TheHandler, decoded, req, bucket,
                                       DateOf(clock), faults, getFail, sendFail)} :
                /\ lastReq' = [NoRequest EXCEPT !.route = "upload-complete",
                                                !.decoded = decoded, !.complete = req]
                /\ resp' = out.resp
                /\ calls' = out.calls
                /\ okCount' =
                     IF out.resp.status = 200
                     THEN okCount (+) SetToBag({BundleOf(req)})
                     ELSE okCount
                /\ sendCount' =
                     IF SendCalls(out.calls) # {}
                     THEN sendCount (+) [b \in {BundleOf(req)} |->
                                           Cardinality(SendCalls(out.calls))]
                     ELSE sendCount
  /\ UNCHANGED <<emailer, clock, bucket, tickets, otherVars>>

\* the response reaches the client; the client keeps a ticket it is issued
Deliver ==
  /\ ~Idle
  /\ tickets' =
       IF resp.body.type = "UploadTicketResponse"
       THEN tickets \cup {[req |-> lastReq.ticket, body |-> resp.body, uploaded |-> 0]}
       ELSE tickets
  /\ lastReq' = NoRequest
  /\ resp' = NoResponse
  /\ calls' = <<>>
  /\ UNCHANGED <<emailer, clock, bucket, okCount, sendCount, otherVars>>

\* a client PUTs the next object of a ticket through its presigned URL
ClientUpload ==
  /\ Idle
  /\ \E t \in tickets :
       /\ t.uploaded < Len(TicketKeys(t.body))
       /\ bucket' = bucket \cup {TicketKeys(t.body)[t.uploaded + 1]}
       /\ tickets' = (tickets \ {t}) \cup {[t EXCEPT !.uploaded = @ + 1]}
  /\ UNCHANGED <<emailer, clock, lastReq, resp, calls, okCount, sendCount, otherVars>>

\* the UTC date changes
Tick ==
  /\ Idle
  /\ clock < MaxTicks
  /\ clock' = clock + 1
  /\ UNCHANGED <<emailer, bucket, tickets, lastReq, resp, calls, okCount, sendCount,
               otherVars>>

Next ==
  \/ DoUploadTicket
  \/ DoUploadComplete
  \/ Deliver
  \/ ClientUpload
  \/ Tick

Spec == Init /\ [][Next]_vars

(***************************************************************************)
(* The key derivation on its own: two identities are drawn, the Builder    *)
(* derives their keys                                                      *)
(***************************************************************************)
KeysInit ==
  /\ emailer = "nil"
  /\ clock = 0
  /\ bucket = {}
  /\ tickets = {}
  /\ lastReq = NoRequest
  /\ resp = NoResponse
  /\ calls = <<>>
  /\ okCount = EmptyBag
  /\ sendCount = EmptyBag
  /\ keyIn \in [a : KeyInputs(MaxNames), b : KeyInputs(1)]
  /\ keyOut = NoKeyOutput
  /\ environ = NoEnviron
  /\ httpReq = NoHTTPRequest
  /\ lambda = NoLambda

DeriveKeys ==
  /\ ~keyOut.derived
  /\ keyOut' = [derived |-> TRUE, a |-> Derive(keyIn.a), b |-> Derive(keyIn.b)]
  /\ UNCHANGED <<keyIn, serviceVars, routerVars, lambda>>

KeysNext == DeriveKeys

SpecKeys == KeysInit /\ [][KeysNext]_vars

(***************************************************************************)
(* The router on its own: the process is started in an environment and     *)
(* serves requests                                                         *)
(***************************************************************************)
RouterInit ==
  /\ emailer = "sender"
  /\ clock = 0
  /\ bucket = {}
  /\ tickets = {}
  /\ lastReq = NoRequest
  /\ resp = NoResponse
  /\ calls = <<>>
  /\ okCount = EmptyBag
  /\ sendCount = EmptyBag
  /\ keyIn = NoKeyInput
  /\ keyOut = NoKeyOutput
  /\ environ \in Environs
  /\ httpReq = NoHTTPRequest
  /\ lambda = NoLambda

\* the handler router.New returns serves a request
Serve ==
  /\ \E r \in HTTPRequests :
       \E out \in {ServeHTTP(LoadAuth(environ), TheHandler, r)} :
         /\ httpReq' = [req |-> r, reached |-> out.reached]
         /\ resp' = out.resp
         /\ calls' = out.calls
  /\ UNCHANGED <<emailer, clock, bucket, tickets, lastReq, okCount, sendCount,
                 keyVars, environ, lambda>>

RouterNext == Serve

SpecRouter == RouterInit /\ [][RouterNext]_vars

(***************************************************************************)
(* The validation gate on its own: requests of every kind reach the two    *)
(* handlers of a service whose bucket holds one object or none             *)
(***************************************************************************)
GateInit ==
  /\ emailer = "sender"
  /\ clock = 0
  /\ bucket \in {{}, {str_envelope_json}}
  /\ tickets = {}
  /\ lastReq = NoRequest
  /\ resp = NoResponse
  /\ calls = <<>>
  /\ okCount = EmptyBag
  /\ sendCount = EmptyBag
  /\ keyIn = NoKeyInput
  /\ keyOut = NoKeyOutput
  /\ environ = NoEnviron
  /\ httpReq = NoHTTPRequest
  /\ lambda = NoLambda

\* POST /v1/upload-ticket with a request of the gate's inputs
GateTicket ==
  /\ Idle
  /\ \E req \in GateTicketRequests :
       \E out \in {UploadTicket(TheHandler, TRUE, req, <<"b","1">>, DateOf(clock), 0)} :
         /\ lastReq' = [NoRequest EXCEPT !.route = "upload-ticket",
                                         !.decoded = TRUE, !.ticket = req]
         /\ resp' = out.resp
         /\ calls' = out.calls
  /\ UNCHANGED <<emailer, clock, bucket, tickets, okCount, sendCount, otherVars>>

\* POST /v1/upload-complete with a request of the gate's inputs
GateComplete ==
  /\ Idle
  /\ \E req \in GateCompleteRequests :
       \E out \in {UploadComplete(TheHandler, TRUE, req, bucket, DateOf(clock),
                                 {}, FALSE, FALSE)} :
         /\ lastReq' = [NoRequest EXCEPT !.route = "upload-complete",
                                         !.decoded = TRUE, !.complete = req]
         /\ resp' = out.resp
         /\ calls' = out.calls
  /\ UNCHANGED <<emailer, clock, bucket, tickets, okCount, sendCount, otherVars>>

GateNext ==
  \/ GateTicket
  \/ GateComplete

SpecGate == GateInit /\ [][GateNext]_vars

(***************************************************************************)
(* cmd/lambda: one invocation with a POST /v1/upload-ticket and a body     *)
(***************************************************************************)
\* handler has converted the event: the body of the request is a
\* stringReader at its start, and UploadTicket is about to decode it
LambdaInit ==
  /\ emailer = "sender"
  /\ clock = 0
  /\ bucket = {}
  /\ tickets = {}
  /\ lastReq = NoRequest
  /\ resp = NoResponse
  /\ calls = <<>>
  /\ okCount = EmptyBag
  /\ sendCount = EmptyBag
  /\ keyIn = NoKeyInput
  /\ keyOut = NoKeyOutput
  /\ environ = NoEnviron
  /\ httpReq = NoHTTPRequest
  /\ lambda \in {[phase |-> "serving", sr |-> NewStringReader(body),
                   scan |-> NewScanner, StatusCode |-> 0] : body \in LambdaBodies}

\* the decoder reads the body once more
DecodeRead ==
  /\ lambda.phase = "serving"
  /\ lambda.scan.status = "more"
  /\ \E lenp \in 1..MaxReadLen :
       \E d \in {DecodeRound(lambda.sr, lambda.scan, lenp)} :
         lambda' = [lambda EXCEPT !.sr = d.sr, !.scan = d.scan]
  /\ UNCHANGED <<serviceVars, keyVars, routerVars>>

\* Decode has returned: UploadTicket writes its response and handler
\* returns it
LambdaReturn ==
  /\ lambda.phase = "serving"
  /\ lambda.scan.status # "more"
  /\ \E out \in {UploadTicket(TheHandler, Decoded(lambda.scan), ZeroTicketRequest,
                               <<"b","1">>, DateOf(clock), 0)} :
       /\ lastReq' = [NoRequest EXCEPT !.route = "upload-ticket",
                                       !.decoded = Decoded(lambda.scan)]
       /\ resp' = out.resp
       /\ calls' = out.calls
       /\ lambda' = [lambda EXCEPT !.phase = "returned",
                                   !.StatusCode = out.resp.status]
  /\ UNCHANGED <<emailer, clock, bucket, tickets, okCount, sendCount,
                 keyVars, routerVars>>

LambdaNext ==
  \/ DecodeRead
  \/ LambdaReturn

\* the handler runs on its own goroutine until it returns
SpecLambda == LambdaInit /\ [][LambdaNext]_vars /\ WF_vars(LambdaNext)

(***************************************************************************)
(* Properties                                                              *)
(***************************************************************************)
\* a completion request has just been handled
CompletionHandled == lastReq.route = "upload-complete"

\* a ticket request has just been handled
TicketHandled == lastReq.route = "upload-ticket"

\* the completion request handled passed the validation gate
CompletionValidated ==
  /\ CompletionHandled
  /\ lastReq.decoded
  /\ ValidateUploadCompleteRequest(lastReq.complete) = <<>>

ClaimedKeys == lastReq.complete.UploadedKeys

\* the claimed keys that are not in the bucket
AbsentKeys == {ClaimedKeys[i] : i \in DOMAIN ClaimedKeys} \ bucket

\* some existence check of the request failed with a transport error
HeadFaulted ==
  \E i \in DOMAIN calls : calls[i].op = "HeadObject" /\ calls[i].result = "error"

\* the Storage Authority reported every claimed key present
AllReportedPresent ==
  /\ AbsentKeys = {}
  /\ ~HeadFaulted

\* the success acknowledgment
Acknowledged ==
  /\ resp.status = 200
  /\ resp.body.type = "UploadCompleteResponse"
  /\ resp.body.Status = str_ok

\* the response is an error of a category
ErrorOf(status, code) ==
  /\ resp.status = status
  /\ resp.body.type = "ErrorResponse"
  /\ resp.body.Code = code

\* the content of an error response names a key
Names(key) ==
  /\ resp.body.type = "ErrorResponse"
  /\ \/ Contains(resp.body.Error, key)
     \/ Contains(resp.body.Details, key)

\* the tickets issued for the bundle a completion request names
TicketsOf(r) ==
  {t \in tickets : /\ t.body.FailureID = r.FailureID
                   /\ t.req.Project = r.Project
                   /\ t.req.Env = r.Env}

\* C1 as stated: a validated completion request without a checksum map whose
\* claimed keys are all reported present is acknowledged with 200 "ok" and
\* makes exactly one Notifier send attempt, whatever the handler was built with.
C1_OneSendInEveryConfiguration ==
  (CompletionValidated /\ lastReq.complete.SHA256.isNil /\ AllReportedPresent)
    => (Acknowledged /\ Cardinality(SendCalls(calls)) = 1)

\* C1 amended: such a request is acknowledged with 200 "ok" and makes exactly
\* one Notifier send attempt when the handler has an email sender, and none
\* when it was built without one (emailer nil).
C1_OneSendWhenSenderPresent ==
  (CompletionValidated /\ lastReq.complete.SHA256.isNil /\ AllReportedPresent)
    => /\ Acknowledged
       /\ Cardinality(SendCalls(calls)) = (IF emailer = "nil" THEN 0 ELSE 1)

C1_Witness ==
  /\ CompletionValidated
  /\ lastReq.complete.SHA256.isNil
  /\ AllReportedPresent
  /\ Len(ClaimedKeys) = 4
  /\ emailer = "sender"
  /\ Acknowledged
  /\ Cardinality(SendCalls(calls)) = 1

\* C2: when a claimed key is absent from storage, the failure has the
\* missing-objects category and its content names every absent claimed key.
C2_MissingObjectsNamesEveryAbsentKey ==
  (CompletionValidated /\ AbsentKeys # {})
    => /\ ErrorOf(400, code_missing_objects)
       /\ \A k \in AbsentKeys : Names(k)

\* C3: a completion request listing only 3 of the 4 required keys of a bundle
\* is answered with a MissingObjects error naming exactly the one required key
\* that is not listed.
C3_UnlistedRequiredKeyIsReported ==
  \A t \in TicketsOf(lastReq.complete) :
    \A i \in 1..4 :
      (CompletionValidated /\ ~HeadFaulted
       /\ ClaimedKeys = DropAt(TicketRequiredKeys(t.body), i))
        => /\ ErrorOf(400, code_missing_objects)
           /\ Names(TicketRequiredKeys(t.body)[i])
           /\ \A j \in 1..4 : j # i => ~Names(TicketRequiredKeys(t.body)[j])

\* C4: a Notifier send attempt for a bundle happens only if all four required
\* objects of that bundle exist in storage at the time of the completion request.
C4_NotifiedOnlyWhenRequiredObjectsExist ==
  (CompletionHandled /\ SendCalls(calls) # {})
    => \E t \in TicketsOf(lastReq.complete) :
         \A i \in 1..4 : TicketRequiredKeys(t.body)[i] \in bucket

\* C5: an existence check that fails with a transport or authorization error
\* aborts the completion request with 500 verification_failed and without a
\* notification, which differs from the answer for a key that is absent.
C5_TransportErrorAbortsVerification ==
  (CompletionHandled /\ HeadFaulted)
    => /\ ErrorOf(500, code_verification_failed)
       /\ SendCalls(calls) = {}

\* the existence checks of the request handled that failed, by position
ObservedFaults ==
  {i \in DOMAIN calls : calls[i].op = "HeadObject" /\ calls[i].result = "error"}

\* the read-authorization request of the request handled failed
ObservedGetFail ==
  \E i \in DOMAIN calls : calls[i].op = "PresignGet" /\ calls[i].result = "error"

\* C6: when the Notifier send fails the completion request is still
\* acknowledged with 200 "ok", and the response of a completion request is the
\* same whether the Notifier succeeds or fails.
C6_NotifierFailureKeepsResponse ==
  CompletionHandled =>
    /\ (\E i \in SendCalls(calls) : calls[i].result = "error") => Acknowledged
    /\ \A sendFail \in BOOLEAN :
         UploadComplete(TheHandler, lastReq.decoded, lastReq.complete, bucket,
                        DateOf(clock), ObservedFaults, ObservedGetFail,
                        sendFail).resp = resp

C6_Witness ==
  /\ CompletionValidated
  /\ AllReportedPresent
  /\ \E i \in SendCalls(calls) : calls[i].result = "error"
  /\ Acknowledged

\* C7 as stated: with an email sender, the Notifier send attempts made for one
\* bundle over all its acknowledged completion requests number exactly one.
C7_OneSendPerBundle ==
  emailer = "sender" =>
    \A b \in BagToSet(okCount) : CopiesIn(b, sendCount) = 1

\* C7 amended: the Notifier send attempts made for one bundle number as many
\* as the completion requests acknowledged for it when the handler has an
\* email sender (a repeated completion request sends again), and none when
\* the handler has no sender.
C7_OneSendPerAcknowledgedRequest ==
  \A b \in BagToSet(okCount) \cup BagToSet(sendCount) :
    CopiesIn(b, sendCount) = (IF emailer = "nil" THEN 0 ELSE CopiesIn(b, okCount))

C7_Witness ==
  \E b \in BagToSet(okCount) :
    /\ CopiesIn(b, okCount) = 2
    /\ CopiesIn(b, sendCount) = 2

\* some write-authorization request of the ticket request handled failed
PresignPutFailed ==
  \E i \in DOMAIN calls : calls[i].op = "PresignPut" /\ calls[i].result = "error"

\* C8: when a PresignPut fails during UploadTicket, whichever slot it is for,
\* the caller receives 500 presign_failed with empty details and nothing of
\* the authorizations that succeeded: no ticket, key or upload URL; no
\* authorization is requested after the failure.
C8_NoPartialTicket ==
  (TicketHandled /\ PresignPutFailed)
    => /\ resp.status = 500
       /\ resp.body = [type |-> "ErrorResponse", Error |-> msg_presign_failed,
                       Code |-> code_presign_failed, Details |-> EmptyStr]
       /\ \A i \in DOMAIN calls : ~Contains(resp.body.Error, calls[i].key)
       /\ \A i \in DOMAIN calls : (calls[i].result = "error") = (i = Len(calls))

C8_Witness ==
  /\ TicketHandled
  /\ Len(calls) = 7
  /\ calls[7].result = "error"
  /\ \A i \in 1..6 : calls[i].result = "ok"
  /\ resp.status = 500

\* the write-authorizations of a ticket
Authorizations(body) ==
  <<body.Uploads.Envelope, body.Uploads.RequestRaw, body.Uploads.RequestHeaders,
    body.Uploads.ResponseRaw, body.Uploads.Checksums>> \o body.Uploads.Files

\* the attachment names of a ticket request
Filenames(req) == [i \in 1..Len(req.Request.Files) |-> req.Request.Files[i].Filename]

\* C9: a ticket issued contains 4 + 1 + n write-authorizations, n the number
\* of files the request declares, duplicate names counted; and AllKeys returns
\* 5 + n keys for the n names.
C9_TicketHasFivePlusNAuthorizations ==
  (TicketHandled /\ resp.body.type = "UploadTicketResponse")
    => LET n == Len(lastReq.ticket.Request.Files)
           auths == Authorizations(resp.body)
           kb == NewBuilder(lastReq.ticket.Project, lastReq.ticket.Env,
                            resp.body.FailureID, DateOf(clock))
       IN /\ Len(auths) = 4 + 1 + n
          /\ \A i \in 1..Len(auths) : auths[i].PutURL = PutURLOf(auths[i].Key)
          /\ Cardinality({i \in DOMAIN calls : calls[i].op = "PresignPut"}) = 5 + n
          /\ Len(AllKeys(kb, Filenames(lastReq.ticket))) = 5 + n

C9_Witness ==
  /\ TicketHandled
  /\ resp.body.type = "UploadTicketResponse"
  /\ Len(lastReq.ticket.Request.Files) = 2
  /\ lastReq.ticket.Request.Files[1].Filename = lastReq.ticket.Request.Files[2].Filename
  /\ Len(Authorizations(resp.body)) = 7

\* the attachment names of an identity pass the validation gate
NamesPassGate(x) == \A i \in DOMAIN x.filenames : x.filenames[i] # EmptyStr

\* C10: the key sets derived for two identities with distinct bundleIDs, with
\* attachment names that pass the validation gate, are disjoint.
C10_KeySetsDisjoint ==
  (keyOut.derived /\ keyIn.a.bundleID # keyIn.b.bundleID
   /\ keyIn.a.bundleID \in UUIDs /\ keyIn.b.bundleID \in UUIDs
   /\ NamesPassGate(keyIn.a) /\ NamesPassGate(keyIn.b))
    => Range(keyOut.a.all) \cap Range(keyOut.b.all) = {}

\* an identity whose project and env match the validation patterns and whose
\* bundleID has no "/"
ValidIdentity(x) ==
  /\ projectRegex(x.project)
  /\ envRegex(x.env)
  /\ ~Contains(x.bundleID, <<"/">>)

\* the identity of a key input without its attachment names
IdentityOf(x) ==
  [project |-> x.project, env |-> x.env, bundleID |-> x.bundleID, date |-> x.date]

\* the Builder of a key input
BuilderOf(x) == WithDate(NewBuilder(x.project, x.env, x.bundleID, DateOf(0)), x.date)

\* C11: for valid identities the prefix derived is the value of Prefix on the
\* identity, the same for equal identities, and for two identities with
\* distinct bundleIDs neither prefix equals or is a prefix of the other.
C11_PrefixDeterministicInjective ==
  (keyOut.derived /\ ValidIdentity(keyIn.a) /\ ValidIdentity(keyIn.b))
    => /\ keyOut.a.prefix = Prefix(BuilderOf(keyIn.a))
       /\ IdentityOf(keyIn.a) = IdentityOf(keyIn.b)
            => keyOut.a.prefix = keyOut.b.prefix
       /\ keyIn.a.bundleID # keyIn.b.bundleID
            => /\ ~HasPrefix(keyOut.a.prefix, keyOut.b.prefix)
               /\ ~HasPrefix(keyOut.b.prefix, keyOut.a.prefix)

C11_Witness ==
  /\ keyOut.derived
  /\ ValidIdentity(keyIn.a)
  /\ ValidIdentity(keyIn.b)
  /\ keyIn.a.bundleID = <<"b">>
  /\ keyIn.b.bundleID = <<"b","1">>
  /\ keyIn.a.date = keyIn.b.date
  /\ ~HasPrefix(keyOut.b.prefix, keyOut.a.prefix)

\* the two decimal digits of a number below 100
TwoDigits(n) == <<DigitChars[(n \div 10) + 1], DigitChars[(n % 10) + 1]>>

\* the four decimal digits of a number below 10000
FourDigits(n) == TwoDigits(n \div 100) \o TwoDigits(n % 100)

\* "failures/" + project + "/" + env + "/" + YYYY + "/" + MM + "/" + DD + "/"
\* + bundleID + "/"
ExpectedPrefix(x) ==
  <<"f","a","i","l","u","r","e","s","/">> \o x.project \o <<"/">> \o x.env
    \o <<"/">> \o FourDigits(x.date.y) \o <<"/">> \o TwoDigits(x.date.m)
    \o <<"/">> \o TwoDigits(x.date.d) \o <<"/">> \o x.bundleID \o <<"/">>

\* the identity (myapp, prod, abc-123, 2024-03-15)
ExampleIdentity ==
  [project |-> <<"m","y","a","p","p">>, env |-> in_prod,
   bundleID |-> <<"a","b","c","-","1","2","3">>,
   date |-> [y |-> 2024, m |-> 3, d |-> 15]]

\* C12: for every identity, NewBuilder(...).WithDate(date).Prefix() is
\* "failures/{project}/{env}/YYYY/MM/DD/{bundleID}/" with month and day padded
\* to two digits; (myapp, prod, abc-123, 2024-03-15) gives
\* failures/myapp/prod/2024/03/15/abc-123/.
C12_PrefixFormat ==
  keyOut.derived
    => /\ keyOut.a.prefix = ExpectedPrefix(keyIn.a)
       /\ keyOut.b.prefix = ExpectedPrefix(keyIn.b)
       /\ Prefix(BuilderOf(ExampleIdentity))
            = <<"f","a","i","l","u","r","e","s","/","m","y","a","p","p","/",
                "p","r","o","d","/","2","0","2","4","/","0","3","/","1","5","/",
                "a","b","c","-","1","2","3","/">>

C12_Witness ==
  /\ keyOut.derived
  /\ keyIn.a.date = [y |-> 2024, m |-> 4, d |-> 1]
  /\ keyIn.b.date = [y |-> 2024, m |-> 3, d |-> 31]
  /\ keyOut.a.prefix = ExpectedPrefix(keyIn.a)
  /\ Len(keyOut.a.prefix) = Len(keyOut.b.prefix)

\* the slot keys derived are the prefix derived followed by the slot's name
SlotKeysFollowPrefix(o) ==
  /\ o.envelope = o.prefix \o <<"e","n","v","e","l","o","p","e",".","j","s","o","n">>
  /\ o.requestRaw = o.prefix \o <<"r","e","q","u","e","s","t",".","r","a","w">>
  /\ o.requestHeaders
       = o.prefix \o <<"r","e","q","u","e","s","t",".","h","e","a","d","e","r","s",
                       ".","j","s","o","n">>
  /\ o.checksums = o.prefix \o <<"c","h","e","c","k","s","u","m","s",".","j","s","o","n">>
  /\ o.responseRaw = o.prefix \o <<"r","e","s","p","o","n","s","e",".","r","a","w">>

\* C13: for every builder the five slot keys are the prefix followed by the
\* slot's fixed name, and RequiredKeys returns exactly the four keys envelope,
\* request.raw, request.headers.json, checksums.json.
C13_SlotKeysArePrefixPlusName ==
  keyOut.derived
    => /\ SlotKeysFollowPrefix(keyOut.a)
       /\ SlotKeysFollowPrefix(keyOut.b)
       /\ keyOut.a.required = <<keyOut.a.envelope, keyOut.a.requestRaw,
                                keyOut.a.requestHeaders, keyOut.a.checksums>>

\* the keys derived for the attachment names are prefix + "files/" + name
FileKeysVerbatim(x, o) ==
  \A i \in DOMAIN x.filenames :
    x.filenames[i] # EmptyStr
      => o.files[i] = o.prefix \o <<"f","i","l","e","s","/">> \o x.filenames[i]

\* C14: for every non-empty attachment name, with "/", "." or ".." segments
\* or without, File(filename) is prefix + "files/" + filename, the name taken
\* verbatim; two attachments of the same name get the same key.
C14_FileKeyIsVerbatim ==
  (keyOut.derived /\ keyIn.a.bundleID \in UUIDs /\ keyIn.b.bundleID \in UUIDs)
    => /\ FileKeysVerbatim(keyIn.a, keyOut.a)
       /\ FileKeysVerbatim(keyIn.b, keyOut.b)
       /\ \A i, j \in DOMAIN keyIn.a.filenames :
            keyIn.a.filenames[i] = keyIn.a.filenames[j]
              => keyOut.a.files[i] = keyOut.a.files[j]

\* the read-authorization requests of the request handled
GetCalls == {i \in DOMAIN calls : calls[i].op = "PresignGet"}

\* C15: the read-authorization of a completion request is requested for the
\* envelope key the ticket of that (project, env, failureId) issued, however
\* much time, a change of the UTC date included, lies between the two.
C15_ReadAuthorizationForTicketEnvelope ==
  (CompletionValidated /\ AllReportedPresent)
    => \A t \in TicketsOf(lastReq.complete) :
         /\ GetCalls # {}
         /\ \A i \in GetCalls : calls[i].key = t.body.Uploads.Envelope.Key

\* C16 as stated: when every claimed key is present and PresignGet fails, the
\* notification is still attempted, with an empty envelope URL, and the
\* request is acknowledged, whatever the handler was built with.
C16_GetFailureStillNotifies ==
  (CompletionValidated /\ AllReportedPresent /\ ObservedGetFail)
    => /\ Acknowledged
       /\ SendCalls(calls) # {}
       /\ \A i \in SendCalls(calls) : calls[i].notif.EnvelopeURL = EmptyStr

\* C16 amended: in that case the request is acknowledged; a handler with an
\* email sender attempts the notification once, with an empty envelope URL,
\* and a handler without one attempts none.
C16_GetFailureDegrades ==
  (CompletionValidated /\ AllReportedPresent /\ ObservedGetFail)
    => /\ Acknowledged
       /\ Cardinality(SendCalls(calls)) = (IF emailer = "nil" THEN 0 ELSE 1)
       /\ \A i \in SendCalls(calls) : calls[i].notif.EnvelopeURL = EmptyStr

C16_Witness ==
  /\ CompletionValidated
  /\ AllReportedPresent
  /\ ObservedGetFail
  /\ emailer = "sender"
  /\ Acknowledged
  /\ \E i \in SendCalls(calls) : calls[i].notif.EnvelopeURL = EmptyStr

\* C17: the notification of an acknowledged completion request carries the
\* bundleID, project and environment of the claim, the method, URL, app
\* version and platform declared for the bundle at ticket issuance, and the
\* envelope read-authorization URL or an empty one.
C17_NotificationCarriesDeclaredMetadata ==
  (CompletionHandled /\ Acknowledged)
    => \A i \in SendCalls(calls) :
         /\ calls[i].notif.FailureID = lastReq.complete.FailureID
         /\ calls[i].notif.Project = lastReq.complete.Project
         /\ calls[i].notif.Env = lastReq.complete.Env
         /\ \/ calls[i].notif.EnvelopeURL = EmptyStr
            \/ \E j \in GetCalls :
                 calls[i].notif.EnvelopeURL = GetURLOf(calls[j].key)
         /\ \A t \in TicketsOf(lastReq.complete) :
              /\ calls[i].notif.Method = t.req.Request.Method
              /\ calls[i].notif.URL = t.req.Request.URL
              /\ calls[i].notif.AppVersion = t.req.Client.AppVersion
              /\ calls[i].notif.Platform = t.req.Client.Platform

\* a ticket request declares more than a ceiling of the configuration allows
OverCeiling(req, cfg) ==
  \/ \E i \in DOMAIN req.Request.Files : req.Request.Files[i].Bytes > cfg.MaxFileBytes
  \/ req.Request.BodyBytes > cfg.MaxBodyBytes
  \/ req.Request.BodyBytes + TotalFileBytes(req.Request.Files) > cfg.MaxTotalBytes

\* the ticket request handled was decoded and violates the validation gate
TicketRejectedByGate ==
  /\ TicketHandled
  /\ lastReq.decoded
  /\ \/ OverCeiling(lastReq.ticket, Load)
     \/ ValidateUploadTicketRequest(lastReq.ticket, Load) # <<>>

\* C18: a ticket request that violates the validation gate (a file above
\* MaxFileBytes, a body above MaxBodyBytes, body plus files above
\* MaxTotalBytes, or any other rule) is answered 400 validation_error, no
\* write-authorization is requested for it, and no bundleID enters the answer:
\* it is the same whatever uuid.New would have returned.
C18_RejectedBeforeTicketIssuer ==
  TicketRejectedByGate
    => /\ ErrorOf(400, code_validation_error)
       /\ calls = <<>>
       /\ \A id \in UUIDs :
            UploadTicket(TheHandler, TRUE, lastReq.ticket, id, DateOf(clock), 0)
              = [resp |-> resp, calls |-> calls]

C18_Witness ==
  /\ TicketRejectedByGate
  /\ Len(lastReq.ticket.Request.Files) = 1
  /\ lastReq.ticket.Request.Files[1].Bytes = 62914560
  /\ lastReq.ticket.Request.Files[1].Bytes > Load.MaxFileBytes
  /\ resp.status = 400
  /\ calls = <<>>

\* the validation errors of the request handled, when it was decoded
ObservedValidationErrors ==
  IF TicketHandled /\ lastReq.decoded
  THEN ValidateUploadTicketRequest(lastReq.ticket, Load)
  ELSE IF CompletionHandled /\ lastReq.decoded
  THEN ValidateUploadCompleteRequest(lastReq.complete)
  ELSE <<>>

\* the content of the error response holds a text
Surfaces(text) ==
  /\ resp.body.type = "ErrorResponse"
  /\ \/ Contains(resp.body.Error, text)
     \/ Contains(resp.body.Details, text)

\* C19: the response to a ticket or completion request rejected by validation
\* has the validation_error category and, for each validation error, names
\* the offending field and gives its message.
C19_ValidationResponseHasFieldDetail ==
  ObservedValidationErrors # <<>>
    => /\ ErrorOf(400, code_validation_error)
       /\ \A i \in DOMAIN ObservedValidationErrors :
            /\ Surfaces(ObservedValidationErrors[i].Field)
            /\ Surfaces(ObservedValidationErrors[i].Message)

\* the Notifier send of the request handled failed
ObservedSendFail ==
  \E i \in SendCalls(calls) : calls[i].result = "error"

\* checksum maps a completion request can carry instead of its own: none, an
\* empty one, one with an entry for a key that is not claimed, and one with
\* an entry for every claimed key
OtherChecksumMaps ==
  {NilMap, MapOf({}), MapOf({<<in_a_txt, in_sum>>}),
   MapOf({<<ClaimedKeys[i], in_sum>> : i \in DOMAIN ClaimedKeys})}

\* C20: a completion request with any other checksum map in place of its
\* own, run against the same bucket, clock and outcomes of the storage and
\* mail calls, makes the same external calls and gets the same response.
C20_ChecksumMapIsNotVerified ==
  (CompletionHandled /\ lastReq.decoded)
    => \A sha \in OtherChecksumMaps :
         UploadComplete(TheHandler, TRUE,
                        [lastReq.complete EXCEPT !.SHA256 = sha], bucket,
                        DateOf(clock), ObservedFaults, ObservedGetFail,
                        ObservedSendFail)
           = [resp |-> resp, calls |-> calls]

C20_Witness ==
  /\ CompletionValidated
  /\ ~lastReq.complete.SHA256.isNil
  /\ lastReq.complete.SHA256.entries # {}
  /\ Len(ClaimedKeys) = 3
  /\ Acknowledged

\* the router has served a request
Served == httpReq.req.method # EmptyStr

\* the request served is for a path under /v1
OnV1 == HasPrefix(httpReq.req.path, <<"/","v","1","/">>)

\* the request served is a POST to one of the two /v1 routes
OnV1Route ==
  /\ httpReq.req.method = <<"P","O","S","T">>
  /\ httpReq.req.path \in {<<"/","v","1">> \o path_upload_ticket,
                            <<"/","v","1">> \o path_upload_complete}

\* the X-Api-Key header of the request served is missing or is not the key
\* of the deployment
KeyMissingOrWrong == httpReq.req.apiKey # environ.API_KEY \/ httpReq.req.apiKey = EmptyStr

\* STAGE is dev, set or by default, or API_KEY is empty
DevOrNoKey ==
  \/ environ.STAGE \in {EmptyStr, <<"d","e","v">>}
  \/ environ.API_KEY = EmptyStr

\* authentication is off exactly when STAGE is dev or API_KEY is empty: a POST
\* to a /v1 route without the key of the deployment reaches its handler
\* exactly then; and GET /health is served without a key
AuthOffExactlyInDevOrWithoutKey ==
  /\ LoadAuth(environ).AuthEnabled = ~DevOrNoKey
  /\ (Served /\ OnV1Route /\ KeyMissingOrWrong)
       => ((httpReq.reached # "none") = DevOrNoKey)
  /\ (Served /\ httpReq.req.path = path_health /\ httpReq.req.method = str_GET)
       => (httpReq.reached = "HealthCheck" /\ resp.status = 200)

\* C21 as stated: authentication is off exactly when STAGE is dev or API_KEY
\* is empty; when it is on, every /v1 request without the key of the
\* deployment is answered 401 and reaches no handler and makes no storage or
\* notifier call; GET /health is served without a key.
C21_EveryV1RequestNeedsKey ==
  /\ AuthOffExactlyInDevOrWithoutKey
  /\ (Served /\ OnV1 /\ KeyMissingOrWrong /\ ~DevOrNoKey)
       => (resp.status = 401 /\ httpReq.reached = "none" /\ calls = <<>>)

\* C21 amended: as stated for every /v1 request but an OPTIONS request, which
\* the CORS middleware answers 200 before the key is looked at; it reaches no
\* handler and makes no call either.
C21_V1RequestNeedsKeyButOptions ==
  /\ AuthOffExactlyInDevOrWithoutKey
  /\ (Served /\ OnV1 /\ KeyMissingOrWrong /\ ~DevOrNoKey)
       => /\ httpReq.reached = "none"
          /\ calls = <<>>
          /\ resp.status = (IF httpReq.req.method = str_OPTIONS THEN 200 ELSE 401)

C21_Witness ==
  /\ Served
  /\ OnV1Route
  /\ environ = [API_KEY |-> in_key1, STAGE |-> in_prod]
  /\ httpReq.req.apiKey = in_key2
  /\ httpReq.req.path = <<"/","v","1">> \o path_upload_complete
  /\ resp.status = 401
  /\ calls = <<>>

\* the characters a-z, A-Z, 0-9, "_" and "-"
WordChars ==
  {"a","b","c","d","e","f","g","h","i","j","k","l","m","n","o","p","q","r","s",
   "t","u","v","w","x","y","z","A","B","C","D","E","F","G","H","I","J","K","L",
   "M","N","O","P","Q","R","S","T","U","V","W","X","Y","Z","0","1","2","3","4",
   "5","6","7","8","9","_","-"}

\* a string of 1 to max characters of a-z, A-Z, 0-9, "_" and "-"
IsWord(str, max) ==
  /\ Len(str) \in 1..max
  /\ \A i \in 1..Len(str) : str[i] \in WordChars

\* 1 when a rule is violated, 0 when it is kept
Violated(kept) == IF kept THEN 0 ELSE 1

\* the number of rules of the ticket gate a request violates, the filename
\* and the size of each file being one rule each
TicketRuleViolations(req, cfg) ==
  Violated(IsWord(req.Project, 64))
  + Violated(IsWord(req.Env, 32))
  + Violated(ToUpper(req.Request.Method)
               \in {<<"G","E","T">>, <<"P","O","S","T">>, <<"P","U","T">>,
                    <<"P","A","T","C","H">>, <<"D","E","L","E","T","E">>,
                    <<"H","E","A","D">>, <<"O","P","T","I","O","N","S">>})
  + Violated(\/ HasPrefix(req.Request.URL, <<"h","t","t","p",":","/","/">>)
             \/ HasPrefix(req.Request.URL, <<"h","t","t","p","s",":","/","/">>))
  + Violated(req.Request.BodyBytes >= 0 /\ req.Request.BodyBytes <= cfg.MaxBodyBytes)
  + Cardinality({i \in DOMAIN req.Request.Files :
                   req.Request.Files[i].Filename = EmptyStr})
  + Cardinality({i \in DOMAIN req.Request.Files :
                   \/ req.Request.Files[i].Bytes < 0
                   \/ req.Request.Files[i].Bytes > cfg.MaxFileBytes})
  + Violated(req.Request.BodyBytes + TotalFileBytes(req.Request.Files)
               <= cfg.MaxTotalBytes)
  + Violated(\/ req.Client.Platform = EmptyStr
             \/ ToLower(req.Client.Platform)
                  \in {<<"i","o","s">>, <<"a","n","d","r","o","i","d">>,
                       <<"w","e","b">>, <<"d","e","s","k","t","o","p">>})

\* C22: ValidateUploadTicketRequest returns as many errors as the request
\* violates rules, none exactly when it violates none; sizes equal to a
\* ceiling are accepted; and a request passes the gate of UploadTicket
\* exactly when it violates no rule.
C22_TicketGateRules ==
  (TicketHandled /\ lastReq.decoded)
    => /\ Len(ValidateUploadTicketRequest(lastReq.ticket, Load))
            = TicketRuleViolations(lastReq.ticket, Load)
       /\ ErrorOf(400, code_validation_error)
            = (TicketRuleViolations(lastReq.ticket, Load) > 0)
       /\ Len(ValidateUploadTicketRequest(ZeroTicketRequest, Load)) = 4

C22_Witness ==
  /\ TicketHandled
  /\ lastReq.decoded
  /\ lastReq.ticket.Request.BodyBytes = Load.MaxBodyBytes
  /\ Len(lastReq.ticket.Request.Files) = 2
  /\ lastReq.ticket.Request.Files[1].Bytes = Load.MaxFileBytes
  /\ lastReq.ticket.Request.BodyBytes + TotalFileBytes(lastReq.ticket.Request.Files)
       > Load.MaxTotalBytes
  /\ lastReq.ticket.Project = Letters(64)
  /\ Len(ValidateUploadTicketRequest(lastReq.ticket, Load)) = 1
  /\ resp.status = 400

\* the number of rules of the completion gate a request violates
CompleteRuleViolations(req) ==
  Violated(req.FailureID # EmptyStr)
  + Violated(IsWord(req.Project, 64))
  + Violated(IsWord(req.Env, 32))
  + Violated(Len(req.UploadedKeys) > 0)

\* C23: ValidateUploadCompleteRequest returns one error for each of: empty
\* failureId, empty or malformed project, empty or malformed env, empty
\* uploadedKeys (4 for an empty request); a completion request with an empty
\* key list is answered validation_error without an existence check, a
\* read-authorization request or a notification.
C23_CompleteGateRules ==
  (CompletionHandled /\ lastReq.decoded)
    => /\ Len(ValidateUploadCompleteRequest(lastReq.complete))
            = CompleteRuleViolations(lastReq.complete)
       /\ Len(ValidateUploadCompleteRequest(ZeroCompleteRequest)) = 4
       /\ ErrorOf(400, code_validation_error)
            = (CompleteRuleViolations(lastReq.complete) > 0)
       /\ ClaimedKeys = <<>>
            => (ErrorOf(400, code_validation_error) /\ calls = <<>>)

C23_Witness ==
  /\ CompletionHandled
  /\ lastReq.decoded
  /\ ClaimedKeys = <<>>
  /\ lastReq.complete.FailureID = <<"b","1">>
  /\ lastReq.complete.Project = in_app
  /\ lastReq.complete.Env = in_prod
  /\ Len(ValidateUploadCompleteRequest(lastReq.complete)) = 1
  /\ resp.status = 400
  /\ calls = <<>>

\* the terminal outcomes of a completion request
VerifiedNotified ==
  /\ Acknowledged
  /\ \E i \in SendCalls(calls) : calls[i].result = "ok"

VerifiedNotifyFailed ==
  /\ Acknowledged
  /\ \E i \in SendCalls(calls) : calls[i].result = "error"

RejectedMissingObjects == ErrorOf(400, code_missing_objects)

RejectedVerificationError == ErrorOf(500, code_verification_failed)

\* the number of the four outcomes the request handled ended in
OutcomesReached ==
  Violated(~VerifiedNotified) + Violated(~VerifiedNotifyFailed)
  + Violated(~RejectedMissingObjects) + Violated(~RejectedVerificationError)

\* C24: a completion request that passes validation ends in exactly one of
\* Verified&Notified, Verified&NotifyFailed, Rejected(MissingObjects) and
\* Rejected(VerificationError), the last being the end of a request whose
\* existence check failed with an error, so that each of the four is reached.
C24_FourTerminalOutcomes ==
  CompletionValidated
    => /\ OutcomesReached = 1
       /\ HeadFaulted => RejectedVerificationError

IsHeadCall(c) == c.op = "HeadObject"

\* the existence checks of the request handled, in the order they were made
HeadCalls == SelectSeq(calls, IsHeadCall)

\* C25: during one completion request that passes validation the keys checked
\* for existence are the entries of uploadedKeys, in list order and once per
\* entry, after a miss or a failed check as well, and the read-authorization
\* request and the notifier send are made at most once.
C25_ChecksAreTheClaimedKeysInOrder ==
  CompletionValidated
    => /\ Len(HeadCalls) = Len(ClaimedKeys)
       /\ \A i \in DOMAIN HeadCalls : HeadCalls[i].key = ClaimedKeys[i]
       /\ Cardinality(GetCalls) <= 1
       /\ Cardinality(SendCalls(calls)) <= 1

\* a request of four distinct keys whose first key is absent, or whose first
\* check fails, while a later one is present: all four are checked
C25_Witness ==
  /\ CompletionValidated
  /\ Len(ClaimedKeys) = 4
  /\ ClaimedKeys[1] \notin bucket
  /\ ClaimedKeys[4] \in bucket
  /\ Len(HeadCalls) = 4
  /\ HeadCalls[1].result # "ok"
  /\ HeadCalls[4].result = "ok"

\* the calls of the ticket request handled are write-authorization requests
OnlyWriteAuthorizations ==
  \A i \in DOMAIN calls : calls[i].op = "PresignPut"

\* handling a ticket request changes nothing the service keeps: the bucket
\* and the counts of acknowledged and notified bundles
TicketStepKeepsRecords ==
  (TicketHandled' /\ ~TicketHandled)
    => /\ bucket' = bucket
       /\ okCount' = okCount
       /\ sendCount' = sendCount

\* C26: UploadTicket makes only write-authorization requests, none at all
\* when it rejects the request, and changes no record; the response and the
\* calls of a completion request are those computed from the request, the
\* bucket, the clock and the outcomes of its own calls, whatever tickets
\* were issued before.
C26_TicketOnlyRequestsWriteAuthorizations ==
  /\ [](TicketHandled
         => /\ OnlyWriteAuthorizations
            /\ resp.status = 400 => calls = <<>>)
  /\ [][TicketStepKeepsRecords]_vars
  /\ [](CompletionHandled
         => UploadComplete(TheHandler, lastReq.decoded, lastReq.complete, bucket,
                           DateOf(clock), ObservedFaults, ObservedGetFail,
                           ObservedSendFail)
              = [resp |-> resp, calls |-> calls])

\* a ticket issued for a request with attachments
C26_Witness ==
  /\ TicketHandled
  /\ resp.status = 200
  /\ Len(calls) > 5
  /\ OnlyWriteAuthorizations

HasSuffix(s, p) ==
  /\ Len(p) <= Len(s)
  /\ SubSeq(s, Len(s) - Len(p) + 1, Len(s)) = p

\* "failures/" + project + "/" + env + "/" of the request handled
NamespaceOf(req) == str_failures \o req.Project \o <<"/">> \o req.Env \o <<"/">>

\* C27: the key a validated completion request gets a read-authorization
\* for lies under "failures/" + project + "/" + env + "/" of the request and
\* ends in the directory of its failureId followed by envelope.json,
\* whatever non-empty failureId the client sent.
C27_ReadAuthorizationStaysInNamespace ==
  CompletionValidated
    => \A i \in GetCalls :
         /\ HasPrefix(calls[i].key, NamespaceOf(lastReq.complete))
         /\ HasSuffix(calls[i].key,
                      <<"/">> \o lastReq.complete.FailureID \o <<"/">>
                        \o str_envelope_json)

\* the read-authorization of a request leaves the namespace of the request
NamespaceEscaped ==
  /\ CompletionValidated
  /\ \E i \in GetCalls : ~HasPrefix(calls[i].key, NamespaceOf(lastReq.complete))

\* C28: every invocation of the Lambda handler with a non-empty body
\* eventually returns a response.
C28_LambdaHandlerReturns ==
  (lambda.phase = "serving") ~> (lambda.phase = "returned")

====
